---- MODULE Spec2Model ----
(***************************************************************************)
(* Model of the sim-operator reconciliation and load-scaling engine:       *)
(* ScaleLoadConfigReconciler.Reconcile and the functions it calls.         *)
(***************************************************************************)
EXTENDS Integers, Sequences, FiniteSets, TLC

VARIABLES
    env,                \* the surroundings: how many Reconcile calls may still meet a failing store
    now,                \* the clock, in half minutes
    config,             \* the ScaleLoadConfig object in the store, or Nil
    nodes,              \* the nodes in the store that match the KWOK selector
    namespaces,         \* the managed namespaces in the store, by name
    apiCallCounter,     \* r.apiCallCounter
    lastRateLimitReset, \* r.lastRateLimitReset
    lastReconcileTime,  \* r.lastReconcileTime
    resourceManagers,   \* the keys of r.resourceManagers
    status,             \* the published status of the ScaleLoadConfig
    window,             \* the admissions observed since the window started
    settled,            \* the last Reconcile converged and nothing changed since
    lastTick,           \* what the Reconcile call of the last step did and returned
    calc,               \* the last call of a pure function and its result
    annotations,        \* the annotations of the nodes the simulator writes
    manager             \* the controller's work queue and its worker

vars == <<env, now, config, nodes, namespaces, apiCallCounter,
          lastRateLimitReset, lastReconcileTime, resourceManagers, status,
          window, settled, lastTick, calc, annotations, manager>>

(***************************************************************************)
(* Bounds of the model.                                                    *)
(***************************************************************************)
MaxCalcNodes == 26

(***************************************************************************)
(* Strings are modelled as tuples of one-character strings.                *)
(***************************************************************************)
\* A Go pointer (or an object that may be absent) is Nil or Ptr(v).
Nil == << >>

Ptr(v) == <<v>>

Deref(p) == p[1]

\* A string: Str("0.6") is written <<"0", ".", "6">>.
EmptyString == << >>

DigitChars == <<"0", "1", "2", "3", "4", "5", "6", "7", "8", "9">>

IsDigit(c) == \E d \in 1..10 : DigitChars[d] = c

DigitVal(c) == (CHOOSE d \in 1..10 : DigitChars[d] = c) - 1

RECURSIVE Pow(_, _)
Pow(b, n) == IF n = 0 THEN 1 ELSE b * Pow(b, n - 1)

(***************************************************************************)
(* float64 arithmetic.  A float64 is [neg, bits, exp]: its magnitude is    *)
(* the 53-bit integer written by bits (most significant bit first, the     *)
(* first bit 1) times 2^exp; zero has bits = << >>.  Only the operations   *)
(* the controller uses are modelled: the correctly rounded conversion of a *)
(* decimal, the product with an integer-valued float64 (round to nearest,  *)
(* ties to even), math.Ceil and the conversion to int.                     *)
(***************************************************************************)
MantissaBits == 53

FloatZero == [neg |-> FALSE, bits |-> << >>, exp |-> 0]

LimbBits == 16

LimbBase == Pow(2, LimbBits)

FracLimbs == 5

RECURSIVE NatBits(_)
NatBits(n) == IF n = 0 THEN << >> ELSE NatBits(n \div 2) \o <<n % 2>>

RECURSIVE BitsToNat(_)
BitsToNat(bits) ==
    IF bits = << >> THEN 0
    ELSE 2 * BitsToNat(SubSeq(bits, 1, Len(bits) - 1)) + bits[Len(bits)]

\* The LimbBits bits of a limb v, 0 <= v < LimbBase.
LimbToBits(v) == [i \in 1..LimbBits |-> (v \div Pow(2, LimbBits - i)) % 2]

\* bits without its leading zeros.
StripZeros(bits) ==
    LET ones == {i \in 1..Len(bits) : bits[i] = 1}
    IN  IF ones = {} THEN << >>
        ELSE SubSeq(bits, CHOOSE i \in ones : \A j \in ones : i <= j, Len(bits))

\* The first n * LimbBits bits of the binary expansion of r/q, 0 <= r < q.
RECURSIVE FracBits(_, _, _)
FracBits(r, q, n) ==
    IF n = 0 THEN << >>
    ELSE LimbToBits((r * LimbBase) \div q)
             \o FracBits((r * LimbBase) % q, q, n - 1)

\* What is left of r/q below those bits (as a numerator over q).
RECURSIVE FracRem(_, _, _)
FracRem(r, q, n) ==
    IF n = 0 THEN r ELSE FracRem((r * LimbBase) % q, q, n - 1)

\* bits + 1, one bit longer when every bit was 1.
IncBits(bits) ==
    LET zeros == {i \in 1..Len(bits) : bits[i] = 0}
    IN  IF zeros = {} THEN <<1>> \o [i \in 1..Len(bits) |-> 0]
        ELSE LET j == CHOOSE i \in zeros : \A k \in zeros : k <= i
             IN  [i \in 1..Len(bits) |->
                      IF i < j THEN bits[i] ELSE IF i = j THEN 1 ELSE 0]

\* The j-th limb of bits, limb 0 the least significant.
Limb(bits, j) ==
    LET hi == Len(bits) - LimbBits * j
        lo == IF hi - LimbBits + 1 < 1 THEN 1 ELSE hi - LimbBits + 1
    IN  BitsToNat(SubSeq(bits, lo, hi))

\* (the limbs j and above of bits) * n + carry, for 1 <= n < 2^14.
RECURSIVE MulLimbs(_, _, _, _)
MulLimbs(bits, n, j, carry) ==
    IF LimbBits * j >= Len(bits) THEN NatBits(carry)
    ELSE MulLimbs(bits, n, j + 1, (Limb(bits, j) * n + carry) \div LimbBase)
             \o LimbToBits((Limb(bits, j) * n + carry) % LimbBase)

MulBits(bits, n) == StripZeros(MulLimbs(bits, n, 0, 0))

\* Round the value (bits + a nonzero fraction iff sticky) * 2^exp to a
\* float64: to nearest, ties to even.  bits has no leading zero.
RoundToFloat(neg, bits, sticky, exp) ==
    LET len == Len(bits) IN
    IF len <= MantissaBits
    THEN [neg |-> neg,
          bits |-> bits \o [i \in 1..(MantissaBits - len) |-> 0],
          exp |-> exp - (MantissaBits - len)]
    ELSE LET kept   == SubSeq(bits, 1, MantissaBits)
             guard  == bits[MantissaBits + 1]
             rest   == sticky \/ \E i \in (MantissaBits + 2)..len : bits[i] = 1
             up     == guard = 1 /\ (rest \/ kept[MantissaBits] = 1)
             m      == IF up THEN IncBits(kept) ELSE kept
             shift  == len - MantissaBits
         IN  IF Len(m) > MantissaBits
             THEN [neg |-> neg, bits |-> SubSeq(m, 1, MantissaBits),
                   exp |-> exp + shift + 1]
             ELSE [neg |-> neg, bits |-> m, exp |-> exp + shift]

\* The float64 nearest to (-1)^neg * p / q, for 1 <= q < 2^15.
RatToFloat(neg, p, q) ==
    IF p = 0 THEN [FloatZero EXCEPT !.neg = neg]
    ELSE RoundToFloat(neg,
             StripZeros(NatBits(p \div q) \o FracBits(p % q, q, FracLimbs)),
             FracRem(p % q, q, FracLimbs) # 0,
             0 - LimbBits * FracLimbs)

\* The float64 nearest to the decimal (-1)^neg * p / 10^k, for k <= 4.
DecimalToFloat(neg, p, k) == RatToFloat(neg, p, Pow(10, k))

\* float64(n) * f for an int n >= 0 (float64(n) is exact for these n).
FloatMulNat(n, f) ==
    IF n = 0 \/ f.bits = << >> THEN [FloatZero EXCEPT !.neg = f.neg]
    ELSE RoundToFloat(f.neg, MulBits(f.bits, n), FALSE, f.exp)

\* int(math.Ceil(f))
CeilToInt(f) ==
    IF f.bits = << >> THEN 0
    ELSE IF f.exp >= 0 THEN
         (IF f.neg THEN -1 ELSE 1) * BitsToNat(f.bits) * Pow(2, f.exp)
    ELSE LET fl    == 0 - f.exp
             whole == IF fl >= MantissaBits THEN 0
                      ELSE BitsToNat(SubSeq(f.bits, 1, MantissaBits - fl))
             frac  == \E i \in 1..MantissaBits :
                          i > MantissaBits - fl /\ f.bits[i] = 1
         IN  IF f.neg THEN 0 - whole
             ELSE whole + (IF frac THEN 1 ELSE 0)

(***************************************************************************)
(* strconv.ParseFloat on the strings the model uses: an optional sign, then*)
(* decimal digits with at most one point and at least one digit.  Strings  *)
(* with any other character are a syntax error; the model's alphabet has   *)
(* no exponent, hexadecimal, underscore, "inf" or "nan" spelling.          *)
(***************************************************************************)
RECURSIVE DigitsToNat(_)
DigitsToNat(s) ==
    IF s = << >> THEN 0
    ELSE 10 * DigitsToNat(SubSeq(s, 1, Len(s) - 1)) + DigitVal(s[Len(s)])

SelectDigits(s) == SelectSeq(s, IsDigit)

parseFloat(s) ==
    LET signed == s # << >> /\ s[1] \in {"-", "+"}
        body   == IF signed THEN SubSeq(s, 2, Len(s)) ELSE s
        points == {i \in 1..Len(body) : body[i] = "."}
        digits == SelectDigits(body)
        wellFormed == /\ \A i \in 1..Len(body) : IsDigit(body[i]) \/ body[i] = "."
                      /\ Cardinality(points) <= 1
                      /\ digits # << >>
        k      == IF points = {} THEN 0
                  ELSE Len(body) - (CHOOSE i \in points : TRUE)
    IN  IF wellFormed
        THEN [err |-> FALSE,
              val |-> DecimalToFloat(signed /\ s[1] = "-", DigitsToNat(digits), k)]
        ELSE [err |-> TRUE, val |-> FloatZero]

(***************************************************************************)
(* calculateTargetNamespaces                                               *)
(***************************************************************************)
Float02 == DecimalToFloat(FALSE, 2, 1)
Float04 == DecimalToFloat(FALSE, 4, 1)
Float06 == DecimalToFloat(FALSE, 6, 1)
Float10 == DecimalToFloat(FALSE, 10, 1)

calculateTargetNamespaces(loadProfile, nodeCount) ==
    IF loadProfile.namespacesPerNode # Nil
    THEN LET parsed == parseFloat(Deref(loadProfile.namespacesPerNode))
         IN  IF ~parsed.err
             THEN CeilToInt(FloatMulNat(nodeCount, parsed.val))
             ELSE CeilToInt(FloatMulNat(nodeCount, Float06))
    ELSE CASE loadProfile.profile = "development" ->
                  CeilToInt(FloatMulNat(nodeCount, Float02))
           [] loadProfile.profile = "staging" ->
                  CeilToInt(FloatMulNat(nodeCount, Float04))
           [] loadProfile.profile = "extreme" ->
                  CeilToInt(FloatMulNat(nodeCount, Float10))
           [] OTHER ->
                  CeilToInt(FloatMulNat(nodeCount, Float06))

(***************************************************************************)
(* The API rate budget: getEffectiveAPIRate and checkAPIRateLimit.         *)
(***************************************************************************)
DefaultAPICallRatePerNode == 20

\* time.Minute in clock units: the clock counts half minutes.
UnitsPerMinute == 2

\* The length of the rate window: one minute.
RateWindow == UnitsPerMinute

\* The per-node rate consulted before the static total.
perNodeBeforeStatic(loadProfile, nodeCount) ==
    IF loadProfile.apiCallRatePerNode # Nil
    THEN [rate |-> Deref(loadProfile.apiCallRatePerNode) * nodeCount,
          type |-> "per-node"]
    ELSE IF loadProfile.apiCallRateStatic # Nil
    THEN [rate |-> Deref(loadProfile.apiCallRateStatic), type |-> "static"]
    ELSE IF loadProfile.apiCallRate # Nil
    THEN [rate |-> Deref(loadProfile.apiCallRate) * nodeCount,
          type |-> "per-node-deprecated"]
    ELSE [rate |-> DefaultAPICallRatePerNode * nodeCount, type |-> "default"]

getEffectiveAPIRate(loadProfile, nodeCount) ==
    IF loadProfile.apiCallRateStatic # Nil
    THEN [rate |-> Deref(loadProfile.apiCallRateStatic), type |-> "static"]
    ELSE IF loadProfile.apiCallRatePerNode # Nil
    THEN [rate |-> Deref(loadProfile.apiCallRatePerNode) * nodeCount,
          type |-> "per-node"]
    ELSE IF loadProfile.apiCallRate # Nil
    THEN [rate |-> Deref(loadProfile.apiCallRate) * nodeCount,
          type |-> "per-node-deprecated"]
    ELSE [rate |-> DefaultAPICallRatePerNode * nodeCount, type |-> "default"]

\* The limiter that compares each request with the rate alone.
admitsWithoutCounting(limiter, loadProfile, estimatedCalls, nodeCount, t) ==
    LET elapsed == limiter.reset = Nil \/ t - Deref(limiter.reset) >= RateWindow
        reset   == IF elapsed THEN Ptr(t) ELSE limiter.reset
        rate    == getEffectiveAPIRate(loadProfile, nodeCount).rate
    IN  [counter |-> IF elapsed THEN 0 ELSE limiter.counter, reset |-> reset,
         admitted |-> estimatedCalls <= rate]

\* The limiter that opens its window once and never again.
neverResets(limiter, loadProfile, estimatedCalls, nodeCount, t) ==
    LET reset == IF limiter.reset = Nil THEN Ptr(t) ELSE limiter.reset
        rate  == getEffectiveAPIRate(loadProfile, nodeCount).rate
    IN  IF limiter.counter + estimatedCalls <= rate
        THEN [counter |-> limiter.counter + estimatedCalls, reset |-> reset,
              admitted |-> TRUE]
        ELSE [counter |-> limiter.counter, reset |-> reset, admitted |-> FALSE]

\* The limiter that counts the calls it denies.
countsDeniedCalls(limiter, loadProfile, estimatedCalls, nodeCount, t) ==
    LET elapsed == limiter.reset = Nil \/ t - Deref(limiter.reset) >= RateWindow
        counter == IF elapsed THEN 0 ELSE limiter.counter
        reset   == IF elapsed THEN Ptr(t) ELSE limiter.reset
        rate    == getEffectiveAPIRate(loadProfile, nodeCount).rate
    IN  [counter |-> counter + estimatedCalls, reset |-> reset,
         admitted |-> counter + estimatedCalls <= rate]

\* checkAPIRateLimit on the limiter state [counter, reset] at time t: the
\* limiter state it leaves and whether it admits.  reset is Nil for the zero
\* time.Time, which lies more than a minute before every clock value.
checkAPIRateLimit(limiter, loadProfile, estimatedCalls, nodeCount, t) ==
    LET elapsed == limiter.reset = Nil \/ t - Deref(limiter.reset) >= RateWindow
        counter == IF elapsed THEN 0 ELSE limiter.counter
        reset   == IF elapsed THEN Ptr(t) ELSE limiter.reset
        rate    == getEffectiveAPIRate(loadProfile, nodeCount).rate
    IN  IF counter + estimatedCalls <= rate
        THEN [counter |-> counter + estimatedCalls, reset |-> reset,
              admitted |-> TRUE]
        ELSE [counter |-> counter, reset |-> reset, admitted |-> FALSE]

(***************************************************************************)
(* The object store.  namespaces maps the name of each managed namespace   *)
(* to its labels, creation timestamp, phase and managed objects: for each  *)
(* count-based kind the set of positions i whose object load-<kind>-i      *)
(* exists, and the positions i whose Service load-service-i exists.  Event *)
(* objects are written and never read back, so the store does not keep     *)
(* them.                                                                   *)
(***************************************************************************)
ConfigName == "S"

CountKinds == {"configmap", "secret", "route", "imagestream", "buildconfig"}

ChurnedKinds == {"configmap", "secret"}

NoNamespaces == [n \in {} |-> 0]

NoObjects == [k \in CountKinds |-> {}]

\* The seconds of a span of clock units.
Seconds(units) == 30 * units

\* fmt.Sprintf("%d", n)
RECURSIVE FormatNat(_)
FormatNat(n) ==
    IF n < 10 THEN <<DigitChars[n + 1]>>
    ELSE FormatNat(n \div 10) \o <<DigitChars[(n % 10) + 1]>>

FormatInt(n) == IF n < 0 THEN <<"-">> \o FormatNat(0 - n) ELSE FormatNat(n)

\* strconv.Atoi
Atoi(s) ==
    LET signed == s # << >> /\ s[1] \in {"-", "+"}
        body   == IF signed THEN SubSeq(s, 2, Len(s)) ELSE s
    IN  IF body # << >> /\ \A i \in 1..Len(body) : IsDigit(body[i])
        THEN [err |-> FALSE,
              val |-> IF signed /\ s[1] = "-" THEN 0 - DigitsToNat(body)
                      ELSE DigitsToNat(body)]
        ELSE [err |-> TRUE, val |-> 0]

\* The orders in which a List call may return the objects in S.
Orders(S) ==
    {f \in [1..Cardinality(S) -> S] :
        \A i, j \in 1..Cardinality(S) : i # j => f[i] # f[j]}

\* A name the random generator has not used for a live namespace, of this
\* ScaleLoadConfig or of the other one.
FreshName(nss) ==
    LET taken == DOMAIN nss \cup DOMAIN namespaces
                     \cup DOMAIN manager.other.namespaces
    IN  CHOOSE n \in 1..(Cardinality(taken) + 1) :
            n \notin taken /\ \A m \in 1..(n - 1) : m \in taken

\* Faults the store may answer with: at most one kind of call fails in a
\* Reconcile call.
NoFault == [op |-> "none", ns |-> 0, kind |-> "none", at |-> 0]

(***************************************************************************)
(* createNamespaces and deleteNamespaces                                   *)
(***************************************************************************)
\* getManagedNamespaces: the namespaces of a store that carry the managed-by
\* label of this ScaleLoadConfig.
getManagedNamespaces(nss) ==
    [n \in {m \in DOMAIN nss : nss[m].labels.managedBy = manager.view} |-> nss[n]]

\* The namespaces of the store that the listing does not return.
Unlisted ==
    [n \in DOMAIN namespaces \ DOMAIN getManagedNamespaces(namespaces) |->
        namespaces[n]]

\* The identity labels, and the labels of spec.namespaceConfig.labels copied
\* over them.
newNamespace(startIndex, i, associatedNode, t) ==
    [labels |-> LET identity == [managedBy |-> manager.view,
                                 associatedNode |-> associatedNode,
                                 createdBy |-> "sim-operator",
                                 namespaceIndex |-> Ptr(FormatInt(startIndex + i))]
                    custom == Deref(config).namespaceLabels
                IN  [k \in DOMAIN identity |->
                        IF k \in DOMAIN custom THEN custom[k] ELSE identity[k]],
     created |-> t,
     phase |-> "Active",
     objs |-> NoObjects,
     services |-> {}]

\* The loop of createNamespaces from iteration i on; nodeChoice[i] is the
\* node rand.Intn picks in iteration i (0: there is no node).
RECURSIVE createLoop(_, _, _, _, _, _, _, _)
createLoop(nss, rms, i, count, startIndex, nodeChoice, fault, t) ==
    IF i >= count THEN [nss |-> nss, rms |-> rms, err |-> FALSE, done |-> i]
    ELSE IF fault.op = "nsWrite" /\ fault.at = i + 1
    THEN [nss |-> nss, rms |-> rms, err |-> TRUE, done |-> i]
    ELSE LET name == FreshName(nss)
             ns   == newNamespace(startIndex, i, nodeChoice[i], t)
         IN  createLoop([n \in DOMAIN nss \cup {name} |->
                            IF n = name THEN ns ELSE nss[n]],
                        rms \cup {name}, i + 1, count, startIndex,
                        nodeChoice, fault, t)

\* createNamespaces returning before its loop.
createNoNamespaces(nss, rms, count, nodeChoice, fault, t) ==
    [nss |-> nss, rms |-> rms, err |-> fault.op = "nsList", done |-> count]

\* createNamespaces going on after a refused create.
createPastFailure(nss, rms, count, nodeChoice, fault, t) ==
    IF fault.op = "nsWrite" /\ fault.at <= count
    THEN [createLoop(nss, rms, 0, count - 1, Cardinality(DOMAIN nss),
                     nodeChoice, NoFault, t) EXCEPT !.err = TRUE]
    ELSE createLoop(nss, rms, 0, count, Cardinality(DOMAIN nss), nodeChoice,
                    fault, t)

createNamespaces(nss, rms, count, nodeChoice, fault, t) ==
    IF fault.op = "nsList"
    THEN [nss |-> nss, rms |-> rms, err |-> TRUE, done |-> 0]
    ELSE createLoop(nss, rms, 0, count, Cardinality(DOMAIN nss), nodeChoice,
                    fault, t)

\* What sort.Slice may leave: the same names, none created before one that
\* precedes it.
SortedByCreation(nss, list) ==
    {sorted \in Orders({list[i] : i \in 1..Len(list)}) :
        \A i, j \in 1..Len(sorted) :
            i < j => ~(nss[sorted[j]].created < nss[sorted[i]].created)}

Unsorted(nss, list) == {list}

sortSlice(nss, list) == SortedByCreation(nss, list)

\* The loop of deleteNamespaces from iteration i on.
RECURSIVE deleteLoop(_, _, _, _, _, _, _)
deleteLoop(nss, rms, sorted, i, count, fault, deleted) ==
    IF ~(i < count /\ i < Len(sorted))
    THEN [nss |-> nss, rms |-> rms, err |-> FALSE, deleted |-> deleted]
    ELSE IF fault.op = "nsWrite" /\ fault.at = i + 1
    THEN [nss |-> nss, rms |-> rms, err |-> TRUE, deleted |-> deleted]
    ELSE LET name == sorted[i + 1]
         IN  deleteLoop([n \in DOMAIN nss \ {name} |-> nss[n]],
                        rms \ {name}, sorted, i + 1, count, fault,
                        Append(deleted, nss[name].created))

deleteNamespaces(nss, rms, sorted, count, fault) ==
    deleteLoop(nss, rms, sorted, 0, count, fault, << >>)

(***************************************************************************)
(* The resource churn engine: manageNamespaceResources and the managers of *)
(* the resource kinds.                                                     *)
(***************************************************************************)
\* The selection that ignores the interval.
selectsEveryNamespace(namespace, interval) == TRUE

shouldCreateResourceForNamespace(namespace, interval) ==
    IF interval <= 1 THEN TRUE
    ELSE IF namespace.labels.namespaceIndex = Nil THEN TRUE
    ELSE LET index == Atoi(Deref(namespace.labels.namespaceIndex))
         IN  IF index.err THEN TRUE
             ELSE index.val % interval = 0

\* The scale-up that stops after its first create.
scaleUpOnce(kind, objs, svcs, i, target, fault, n) ==
    IF i >= target \/ i \in objs
    THEN [objs |-> objs, svcs |-> svcs, err |-> FALSE, done |-> n]
    ELSE [objs |-> objs \cup {i},
          svcs |-> IF kind = "route" THEN svcs \cup {i} ELSE svcs,
          err |-> FALSE, done |-> n + 1]

\* The scale-up loop of a kind manager from position i on.  n counts the
\* object creates issued so far; creating a name that exists fails.
RECURSIVE scaleUp(_, _, _, _, _, _, _)
scaleUp(kind, objs, svcs, i, target, fault, n) ==
    IF i >= target
    THEN [objs |-> objs, svcs |-> svcs, err |-> FALSE, done |-> n]
    ELSE IF kind = "route" /\ fault.op = "svcWrite" /\ fault.at = n + 1
    THEN [objs |-> objs, svcs |-> svcs, err |-> TRUE, done |-> n]
    ELSE IF (fault.op = "objWrite" /\ fault.at = n + 1) \/ i \in objs
    THEN [objs |-> objs,
          svcs |-> IF kind = "route" THEN svcs \cup {i} ELSE svcs,
          err |-> TRUE, done |-> n]
    ELSE scaleUp(kind, objs \cup {i},
                 IF kind = "route" THEN svcs \cup {i} ELSE svcs,
                 i + 1, target, fault, n + 1)

\* The scale-down loop of a kind manager from list index i (0-based) down
\* to target.  items is the listed order; n counts the deletes done.
RECURSIVE scaleDown(_, _, _, _, _, _, _, _)
scaleDown(kind, objs, svcs, items, i, target, fault, n) ==
    IF i < target
    THEN [objs |-> objs, svcs |-> svcs, err |-> FALSE, done |-> n]
    ELSE IF fault.op = "objWrite" /\ fault.at = n + 1
    THEN [objs |-> objs, svcs |-> svcs, err |-> TRUE, done |-> n]
    ELSE IF kind = "route" /\ fault.op = "svcWrite" /\ fault.at = n + 1
    THEN [objs |-> objs \ {items[i + 1]}, svcs |-> svcs, err |-> TRUE,
          done |-> n + 1]
    ELSE scaleDown(kind, objs \ {items[i + 1]},
                   IF kind = "route" THEN svcs \ {i} ELSE svcs,
                   items, i - 1, target, fault, n + 1)

\* performResourceChurn on the listed items: churn is the set of list
\* indices the random draw selects; with shared the pointers taken in the
\* range loop all refer to the one loop variable, which holds the last item.
\* The updates that succeed, and those that fail: their object is gone, or
\* the store refuses the update (fault objUpdate, for the at-th update).
performResourceChurn(items, objs, churn, shared, fault) ==
    LET subject(j) == IF shared THEN items[Len(items)] ELSE items[j]
        rank(j) == Cardinality({k \in churn : k <= j})
        refused == {j \in churn : fault.op = "objUpdate" /\ rank(j) = fault.at}
        done == {j \in churn \ refused : subject(j) \in objs}
    IN  [updated |-> Cardinality(done),
         stale   |-> Cardinality(churn \ done)]

\* manageConfigMaps, manageSecrets, manageRoutes, manageImageStreams and
\* manageBuildConfigs: one pass of a count-based kind in one namespace.
manageCountKind(kind, namespace, targetCount, items, fault, churn, shared) ==
    LET objs == namespace.objs[kind]
        svcs == namespace.services
        currentCount == Len(items)
        scaled ==
            IF currentCount < targetCount
            THEN scaleUp(kind, objs, svcs, currentCount, targetCount, fault, 0)
            ELSE IF currentCount > targetCount
            THEN scaleDown(kind, objs, svcs, items, currentCount - 1,
                           targetCount, fault, 0)
            ELSE [objs |-> objs, svcs |-> svcs, err |-> FALSE, done |-> 0]
        churned ==
            IF kind \in ChurnedKinds /\ ~scaled.err
            THEN performResourceChurn(items, scaled.objs, churn, shared, fault)
            ELSE [updated |-> 0, stale |-> 0]
    IN  [objs |-> scaled.objs,
         svcs |-> scaled.svcs,
         err |-> scaled.err,
         count |-> IF ~scaled.err THEN targetCount
                   ELSE IF kind \notin ChurnedKinds THEN currentCount
                   ELSE IF currentCount < targetCount
                        THEN currentCount + scaled.done
                        ELSE currentCount - scaled.done,
         created |-> IF currentCount < targetCount THEN scaled.done ELSE 0,
         deleted |-> IF currentCount > targetCount THEN scaled.done ELSE 0,
         updated |-> churned.updated,
         stale |-> churned.stale]

\* int32(f) for a float64 f >= 0 below 2^31: the fraction is dropped.
TruncToInt(f) ==
    IF f.bits = << >> \/ 0 - f.exp >= MantissaBits THEN 0
    ELSE IF f.exp >= 0 THEN BitsToNat(f.bits) * Pow(2, f.exp)
    ELSE BitsToNat(SubSeq(f.bits, 1, MantissaBits + f.exp))

DefaultEventsPerHour == 50

MaxEventsPerTick == 10

\* time.Since(r.lastReconcileTime) at time t, in clock units; one minute
\* stands in for the zero time.
timeSinceLastReconcile(lastReconcile, t) ==
    IF lastReconcile = Nil THEN UnitsPerMinute ELSE t - Deref(lastReconcile)

\* The number of events of the rate over the span, without the cap of a tick.
eventsWithoutCap(events, since) ==
    LET eventsPerHour == IF events.eventsPerNodePerHour <= 0
                         THEN DefaultEventsPerHour
                         ELSE events.eventsPerNodePerHour
    IN  TruncToInt(FloatMulNat(eventsPerHour,
                               RatToFloat(FALSE, Seconds(since), 3600)))

\* The number of events manageEvents attempts.  Duration.Hours() is
\* float64(whole hours) + float64(rest)/float64(time.Hour); the clock of the
\* model stays below one hour, so the first term is 0.
eventsToCreate(events, since) ==
    LET eventsPerHour == IF events.eventsPerNodePerHour <= 0
                         THEN DefaultEventsPerHour
                         ELSE events.eventsPerNodePerHour
        hours == RatToFloat(FALSE, Seconds(since), 3600)
        n     == TruncToInt(FloatMulNat(eventsPerHour, hours))
    IN  IF n > MaxEventsPerTick THEN MaxEventsPerTick ELSE n

(***************************************************************************)
(* The ScaleLoadConfig objects of the model.                               *)
(***************************************************************************)
NoCall == [fn |-> "none"]

NoKind == [enabled |-> FALSE, count |-> 0, namespaceInterval |-> 0]

BaseConfig ==
    [enabled |-> TRUE, finalizer |-> FALSE, otherFinalizers |-> FALSE,
     deletionTimestamp |-> Nil,
     namespaceLabels |-> << >>,
     loadProfile |-> [profile |-> "production", namespacesPerNode |-> Nil,
                      apiCallRate |-> Nil, apiCallRateStatic |-> Nil,
                      apiCallRatePerNode |-> Nil],
     resourceChurn |-> [k \in CountKinds |-> NoKind],
     events |-> [enabled |-> FALSE, eventsPerNodePerHour |-> 0],
     annotationChurn |-> [enabled |-> FALSE, networkingAnnotations |-> FALSE,
                          machineConfigAnnotations |-> FALSE,
                          updateIntervalMin |-> 0, updateIntervalMax |-> 0],
     cleanupConfig |-> [enabled |-> TRUE, cleanupDelaySeconds |-> 0,
                        gracefulDeletes |-> FALSE]]

\* One namespace per node against a static budget of 20 calls a minute.
NamespaceConfig ==
    [BaseConfig EXCEPT !.loadProfile.namespacesPerNode = Ptr(<<"1", ".", "0">>),
                       !.loadProfile.apiCallRateStatic = Ptr(20)]

\* Two namespaces per node against a static budget of 12 calls a minute.
StaticRateConfig ==
    [BaseConfig EXCEPT !.loadProfile.namespacesPerNode = Ptr(<<"2">>),
                       !.loadProfile.apiCallRateStatic = Ptr(12),
                       !.cleanupConfig.cleanupDelaySeconds = 30]

\* ConfigMaps in every second namespace, a Route in each, and events.
ChurnConfig ==
    [BaseConfig EXCEPT
        !.loadProfile.profile = "extreme",
        !.loadProfile.apiCallRatePerNode = Ptr(10),
        !.resourceChurn["configmap"] =
            [enabled |-> TRUE, count |-> 2, namespaceInterval |-> 2],
        !.resourceChurn["route"] =
            [enabled |-> TRUE, count |-> 1, namespaceInterval |-> 1],
        !.events = [enabled |-> TRUE, eventsPerNodePerHour |-> 120]]

\* ImageStreams in every namespace; their count is edited while running.
ScaleConfig ==
    [NamespaceConfig EXCEPT
        !.resourceChurn["imagestream"] =
            [enabled |-> TRUE, count |-> 2, namespaceInterval |-> 1]]

\* Cleanup on deletion switched off, with a cleanup delay left configured.
KeepConfig ==
    [NamespaceConfig EXCEPT
        !.cleanupConfig = [enabled |-> FALSE, cleanupDelaySeconds |-> 30,
                           gracefulDeletes |-> FALSE]]

\* Extra namespace labels of the user, one of them under the managed-by key.
LabelConfig == [NamespaceConfig EXCEPT !.namespaceLabels = [managedBy |-> "team"]]

\* An object that carries the finalizer of another controller as well.
HeldConfig == [NamespaceConfig EXCEPT !.otherFinalizers = TRUE]

\* Node annotation churn with both annotation groups, every 30 to 60 seconds.
AnnotConfig ==
    [NamespaceConfig EXCEPT
        !.annotationChurn = [enabled |-> TRUE, networkingAnnotations |-> TRUE,
                             machineConfigAnnotations |-> TRUE,
                             updateIntervalMin |-> 30,
                             updateIntervalMax |-> 60]]

\* A ConfigMap and a Route with its Service in every namespace, events, and
\* node annotation churn.
FullConfig ==
    [AnnotConfig EXCEPT
        !.resourceChurn["configmap"] =
            [enabled |-> TRUE, count |-> 1, namespaceInterval |-> 1],
        !.resourceChurn["route"] =
            [enabled |-> TRUE, count |-> 1, namespaceInterval |-> 1],
        !.events = [enabled |-> TRUE, eventsPerNodePerHour |-> 120]]

\* Two ConfigMaps and two Routes with their Services in every namespace;
\* the counts are edited while running.
EditConfig ==
    [NamespaceConfig EXCEPT
        !.resourceChurn["configmap"] =
            [enabled |-> TRUE, count |-> 2, namespaceInterval |-> 1],
        !.resourceChurn["route"] =
            [enabled |-> TRUE, count |-> 2, namespaceInterval |-> 1]]

\* Annotation churn with each choice of the two groups, every 30 to 60
\* seconds or every 30 seconds.
AnnotConfigs ==
    {[AnnotConfig EXCEPT
         !.annotationChurn.networkingAnnotations = net,
         !.annotationChurn.machineConfigAnnotations = mc,
         !.annotationChurn.updateIntervalMax = max] :
        net \in BOOLEAN, mc \in BOOLEAN, max \in {30, 60}}

\* Event rates a user may write: not positive, the default, below and above
\* the cap of a tick.
EventRates == {0 - 5, 0, 50, 120, 1200, 2400}

\* Events in every namespace, at each of these rates.
EventConfigs ==
    {[NamespaceConfig EXCEPT
         !.events = [enabled |-> TRUE, eventsPerNodePerHour |-> rate]] :
        rate \in EventRates}

Profiles == {"development", "staging", "production", "extreme", "custom"}

\* Every profile name, with one and with two namespaces per node.
ProfileConfigs ==
    {[c EXCEPT !.loadProfile.profile = profile] :
        c \in {NamespaceConfig, StaticRateConfig}, profile \in Profiles}

\* Explicit ratios: below zero, not a number, and a plain decimal.
RatioConfigs ==
    {[NamespaceConfig EXCEPT !.loadProfile.namespacesPerNode = Ptr(ratio)] :
        ratio \in {<<"-", "1">>, <<"-", "0", ".", "5">>, <<"x">>,
                   <<"0", ".", "5">>}}

Configs ==
    {NamespaceConfig, StaticRateConfig, ChurnConfig, ScaleConfig, KeepConfig,
     AnnotConfig, FullConfig, EditConfig, HeldConfig, LabelConfig}
    \cup ProfileConfigs \cup EventConfigs \cup AnnotConfigs \cup RatioConfigs

MaxTime == 3

MaxNodes == 2

\* calculateTargetNamespaces for the load profiles and node counts of the
\* model, each computed once.
targetNamespacesOf ==
    [loadProfile \in {c.loadProfile : c \in Configs} |->
        [nodeCount \in 0..MaxNodes |->
            calculateTargetNamespaces(loadProfile, nodeCount)]]

\* eventsToCreate for the event settings and the time spans of the model,
\* each computed once.
eventsToCreateOf ==
    [events \in {c.events : c \in Configs} |->
        [since \in 0..(MaxTime + UnitsPerMinute) |-> eventsToCreate(events, since)]]

KindSeq == <<"configmap", "secret", "route", "imagestream", "buildconfig">>

ResourceTypes == CountKinds \cup {"event"}

\* What a pass over the namespaces has done so far: the store, the
\* aggregated resourceCounts, and the calls it issued.
NoWork(nss) ==
    [nss |-> nss,
     counts |-> [r \in ResourceTypes |-> 0],
     created |-> 0, deleted |-> 0, updated |-> 0, stale |-> 0,
     eventAttempts |-> 0, eventsCreated |-> 0,
     kindErrors |-> {}, labels |-> {}]

\* The labels generateConfigMap, generateSecret, generateRoute,
\* generateService, generateImageStream and generateBuildConfig give the
\* object they build; resourceType is the kind in lower case.
objectLabels(resourceType) ==
    [managedBy |-> manager.view, resourceType |-> Ptr(resourceType),
     createdBy |-> "sim-operator"]

\* The labels generateEvent gives the Event it builds.
eventLabels ==
    [managedBy |-> manager.view, resourceType |-> Nil,
     createdBy |-> "sim-operator"]

localFault(fault, name, kind) ==
    IF fault.ns = name /\ fault.kind = kind THEN fault ELSE NoFault

\* One resource kind of manageNamespaceResources in namespace name: the
\* possible results, over the listed order and the random draws of churn.
kindStep(acc, name, kind, cfg, fault) ==
    LET namespace == acc.nss[name]
        kc == cfg.resourceChurn[kind]
        n  == Cardinality(namespace.objs[kind])
        churned == kind \in ChurnedKinds
        failed == {[acc EXCEPT !.kindErrors = @ \cup {<<name, kind>>}]}
        merge(o) ==
            [acc EXCEPT
                !.nss[name].objs[kind] = o.objs,
                !.nss[name].services = o.svcs,
                !.counts[kind] = IF o.err THEN @ ELSE @ + o.count,
                !.created = @ + o.created,
                !.deleted = @ + o.deleted,
                !.updated = @ + o.updated,
                !.stale = @ + o.stale,
                !.kindErrors = IF o.err THEN @ \cup {<<name, kind>>} ELSE @,
                !.labels = @ \cup (IF o.objs \ namespace.objs[kind] # {}
                                   THEN {objectLabels(kind)} ELSE {})
                             \cup (IF o.svcs \ namespace.services # {}
                                   THEN {objectLabels("service")} ELSE {})]
    IN  IF ~kc.enabled
           \/ ~shouldCreateResourceForNamespace(namespace, kc.namespaceInterval)
        THEN {acc}
        ELSE IF localFault(fault, name, kind).op = "objList" THEN failed
        ELSE {merge(manageCountKind(kind, namespace, kc.count, items,
                                    localFault(fault, name, kind), churn, shared)) :
                 items \in Orders(namespace.objs[kind]),
                 churn \in IF churned THEN SUBSET (1..n) ELSE {{}},
                 shared \in IF churned /\ n > 1 THEN BOOLEAN ELSE {FALSE}}

\* manageEvents in namespace name.
eventStep(acc, name, cfg, fault, lastReconcile, t) ==
    LET attempts == eventsToCreateOf[cfg.events][
                        timeSinceLastReconcile(lastReconcile, t)]
        failures == IF fault.op = "eventWrite" /\ fault.ns = name
                    THEN (IF fault.at < attempts THEN fault.at ELSE attempts)
                    ELSE 0
    IN  IF ~cfg.events.enabled THEN acc
        ELSE [acc EXCEPT !.counts["event"] = @ + (attempts - failures),
                         !.eventAttempts = @ + attempts,
                         !.eventsCreated = @ + (attempts - failures),
                         !.labels = IF attempts - failures > 0
                                    THEN @ \cup {eventLabels} ELSE @]

RECURSIVE kindFold(_, _, _, _, _)
\* The pass of a namespace that ends at the first kind that fails.
kindFoldStops(accs, name, k, cfg, fault) ==
    IF k > Len(KindSeq) THEN accs
    ELSE LET next == UNION {kindStep(acc, name, KindSeq[k], cfg, fault) :
                               acc \in accs}
         IN  IF \E acc \in next : acc.kindErrors # {} THEN next
             ELSE kindFold(next, name, k + 1, cfg, fault)

kindFold(accs, name, k, cfg, fault) ==
    IF k > Len(KindSeq) THEN accs
    ELSE kindFold(UNION {kindStep(acc, name, KindSeq[k], cfg, fault) : acc \in accs},
                  name, k + 1, cfg, fault)

\* checkNamespaceStatus / isNamespaceReady
isNamespaceReady(nss, name) ==
    name \in DOMAIN nss /\ nss[name].phase \in {"Active", ""}

\* The Get of checkNamespaceStatus may fail (fault nsGet): the namespace
\* counts as not ready and its pass is skipped.
manageNamespaceResources(acc, name, cfg, fault, lastReconcile, t) ==
    IF fault.op = "nsGet" /\ fault.ns = name
    THEN {[acc EXCEPT !.kindErrors = @ \cup {<<name, "namespace">>}]}
    ELSE IF ~isNamespaceReady(acc.nss, name) THEN {acc}
    ELSE {eventStep(a, name, cfg, fault, lastReconcile, t) :
             a \in kindFold({acc}, name, 1, cfg, fault)}

\* The loop of manageLoadResources over the current namespaces.
RECURSIVE resourceLoop(_, _, _, _, _, _)
resourceLoop(accs, names, cfg, fault, lastReconcile, t) ==
    IF names = {} THEN accs
    ELSE LET name == CHOOSE n \in names : \A m \in names : n <= m
         IN  resourceLoop(
                 UNION {manageNamespaceResources(acc, name, cfg, fault,
                                                 lastReconcile, t) : acc \in accs},
                 names \ {name}, cfg, fault, lastReconcile, t)

(***************************************************************************)
(* manageLoadResources                                                     *)
(***************************************************************************)
\* kwokNodes[rand.Intn(len(kwokNodes))].Name, or "" (0) without nodes.
NodeChoices(kwokNodes) == IF kwokNodes = {} THEN {0} ELSE kwokNodes

\* The return of manageLoadResources with the namespace count the tick
\* started from.
countsBeforeConvergence(nss, rms, err, count, work, created, deleted, listFailed) ==
    [nss |-> nss, rms |-> rms, err |-> err,
     namespaceCount |-> Cardinality(DOMAIN namespaces),
     work |-> work, nsCreated |-> created, nsDeleted |-> deleted,
     nsFailed |-> err /\ ~listFailed, listFailed |-> listFailed]

\* What manageLoadResources leaves and returns.
loadOutcome(nss, rms, err, count, work, created, deleted, listFailed) ==
    [nss |-> nss, rms |-> rms, err |-> err, namespaceCount |-> count,
     work |-> work, nsCreated |-> created, nsDeleted |-> deleted,
     nsFailed |-> err /\ ~listFailed, listFailed |-> listFailed]

\* The resource loop and the return of manageLoadResources.
manageResources(nss, rms, count, cfg, fault, created, deleted, lastReconcile, t) ==
    {loadOutcome(work.nss, rms, FALSE, count, work, created, deleted, FALSE) :
        work \in resourceLoop({NoWork(nss)}, DOMAIN nss, cfg, fault,
                              lastReconcile, t)}

manageLoadResources(nss, rms, cfg, kwokNodes, targetNamespaces, fault, lastReconcile, t) ==
    LET currentNamespaceCount == Cardinality(DOMAIN nss)
    IN  IF fault.op = "nsList"
        THEN {loadOutcome(nss, rms, TRUE, 0, NoWork(nss), 0, << >>, TRUE)}
        ELSE IF currentNamespaceCount < targetNamespaces
        THEN UNION {
                 LET made == createNamespaces(nss, rms,
                                 targetNamespaces - currentNamespaceCount,
                                 nodeChoice, fault, t)
                 IN  IF made.err
                     THEN {loadOutcome(made.nss, made.rms, TRUE,
                                       currentNamespaceCount, NoWork(made.nss),
                                       made.done, << >>, FALSE)}
                     ELSE manageResources(made.nss, made.rms,
                                          Cardinality(DOMAIN made.nss), cfg,
                                          fault, made.done, << >>,
                                          lastReconcile, t) :
                 nodeChoice \in [0..(targetNamespaces - currentNamespaceCount - 1)
                                     -> NodeChoices(kwokNodes)]}
        ELSE IF currentNamespaceCount > targetNamespaces
        THEN UNION {
                 LET gone == deleteNamespaces(nss, rms, sorted,
                                 currentNamespaceCount - targetNamespaces, fault)
                 IN  IF gone.err
                     THEN {loadOutcome(gone.nss, gone.rms, TRUE,
                                       currentNamespaceCount, NoWork(gone.nss),
                                       0, gone.deleted, FALSE)}
                     ELSE manageResources(gone.nss, gone.rms, targetNamespaces,
                                          cfg, fault, 0, gone.deleted,
                                          lastReconcile, t) :
                 sorted \in UNION {sortSlice(nss, list) :
                                      list \in Orders(DOMAIN nss)}}
        ELSE manageResources(nss, rms, currentNamespaceCount, cfg, fault, 0,
                             << >>, lastReconcile, t)

(***************************************************************************)
(* The status manager: updateStatus, updateConditions, and the deletion    *)
(* handlers.                                                               *)
(***************************************************************************)
\* calculateMetrics always publishes this error rate.
ErrorRate == <<"0", ".", "0", "0">>

HighErrorRate == DecimalToFloat(FALSE, 10, 0)

\* f > g for float64 values f >= 0 and g > 0: both mantissas have
\* MantissaBits bits, so the exponents decide, and then the mantissas.
FloatGreater(f, g) ==
    LET half == MantissaBits \div 2
        hi(x) == BitsToNat(SubSeq(x.bits, 1, half))
        lo(x) == BitsToNat(SubSeq(x.bits, half + 1, MantissaBits))
    IN  /\ f.bits # << >>
        /\ \/ f.exp > g.exp
           \/ f.exp = g.exp /\ hi(f) > hi(g)
           \/ f.exp = g.exp /\ hi(f) = hi(g) /\ lo(f) > lo(g)

updateConditions(cfg, kwokNodeCount) ==
    LET errorRate == parseFloat(ErrorRate)
    IN  [ready |-> IF ~cfg.enabled THEN "LoadGenerationDisabled"
                   ELSE IF kwokNodeCount = 0 THEN "NoKwokNodes"
                   ELSE "LoadGenerationActive",
         scaling |-> IF kwokNodeCount = 0 THEN "NoScaling"
                     ELSE "ResourcesScaling",
         degraded |-> IF ~errorRate.err /\ ~errorRate.val.neg
                         /\ FloatGreater(errorRate.val, HighErrorRate)
                      THEN "HighErrorRate" ELSE "OperatingNormally"]

NoStatus ==
    [kwokNodeCount |-> 0, generatedNamespaces |-> 0,
     totalResources |-> [r \in ResourceTypes |-> 0],
     conditions |-> Nil]

\* updateStatus: the status it publishes, unless the write fails.
updateStatus(old, cfg, kwokNodeCount, namespaceCount, resourceCounts, fault) ==
    IF fault.op = "statusWrite" THEN [status |-> old, err |-> TRUE]
    ELSE [status |-> [kwokNodeCount |-> kwokNodeCount,
                      generatedNamespaces |-> namespaceCount,
                      totalResources |-> resourceCounts,
                      conditions |-> Ptr(updateConditions(cfg, kwokNodeCount))],
          err |-> FALSE]

\* cleanupManagedNamespaces: a failed delete is skipped, the others go on.
\* The stores it may leave, with the resource managers.
cleanupManagedNamespaces(nss, rms, fault) ==
    IF fault.op = "nsList" THEN {[nss |-> nss, rms |-> rms, err |-> TRUE]}
    ELSE IF fault.op = "nsWrite" /\ fault.at <= Cardinality(DOMAIN nss)
    THEN {[nss |-> [n \in {kept} |-> nss[n]],
           rms |-> rms \ (DOMAIN nss \ {kept}),
           err |-> FALSE] : kept \in DOMAIN nss}
    ELSE {[nss |-> NoNamespaces, rms |-> rms \ DOMAIN nss, err |-> FALSE]}

\* One interval for every profile.
sameInterval(loadProfile) == 60

\* calculateReconcileInterval, in seconds
calculateReconcileInterval(loadProfile) ==
    CASE loadProfile.profile = "development" -> 120
      [] loadProfile.profile = "staging" -> 90
      [] loadProfile.profile = "extreme" -> 30
      [] OTHER -> 60

(***************************************************************************)
(* Node annotation churn                                                   *)
(***************************************************************************)
\* The annotations of a node the simulator reads back: the sentinel
\* scale.openshift.io/last-annotation-update and scale.openshift.io/last-seen;
\* and other, an annotation that another writer owns.
NoAnnotations == [lastUpdate |-> Nil, lastSeen |-> Nil, other |-> Nil]

\* The values the other writer gives its annotation; Nil: it removes it.
OtherValues == {Nil, Ptr("a"), Ptr("b")}

\* The keys an annotation group sets on the copy of the node.  drawn: the
\* random draws selected at least one key of the group.
updateNetworkingAnnotations(drawn) ==
    IF drawn THEN {"networking", "lastUpdate", "networkingIteration"} ELSE {}

updateMachineConfigAnnotations(drawn) ==
    IF drawn THEN {"machineConfig", "lastUpdate", "machineConfigIteration"}
    ELSE {}

\* The CSI and machine API keys, drawn or not, are not read back; the group
\* sets load-generator-managed and last-seen in every call.
updateClusterAnnotations == {"managed", "lastSeen"}

\* wait.Backoff{Steps: 5}
BackoffSteps == 5

\* The store answers every write of the node.
NoNodeFault == [node |-> 0, kind |-> "none", at |-> 0]

\* wait.ExponentialBackoff around the condition of updateNodeWithRetry: get
\* the node, merge, update.  With kind "conflict" the first at writes meet a
\* conflict; with kind "error" the write of attempt at meets another error,
\* with kind "getError" its Get does, the writes before it a conflict.
RECURSIVE retryLoop(_, _, _)
retryLoop(steps, attempt, nodeFault) ==
    IF steps <= 0
    THEN [attempts |-> attempt - 1, persisted |-> 0, err |-> "timeout"]
    ELSE IF nodeFault.kind \in {"error", "getError"} /\ attempt = nodeFault.at
    THEN [attempts |-> attempt, persisted |-> 0, err |-> nodeFault.kind]
    ELSE IF nodeFault.kind \in {"conflict", "error", "getError"}
            /\ attempt <= nodeFault.at
    THEN IF steps = 1
         THEN [attempts |-> attempt, persisted |-> 0, err |-> "timeout"]
         ELSE retryLoop(steps - 1, attempt + 1, nodeFault)
    ELSE [attempts |-> attempt, persisted |-> 1, err |-> "none"]

\* The update that takes every error for a conflict.
retriesEveryError(nodeFault) ==
    retryLoop(BackoffSteps, 1, [nodeFault EXCEPT !.kind = "conflict"])

\* The update that gives up at the first conflict.
updateNodeOnce(nodeFault) == retryLoop(1, 1, nodeFault)

updateNodeWithRetry(nodeFault) == retryLoop(BackoffSteps, 1, nodeFault)

\* shouldUpdateNodeAnnotations: the answers the random interval in
\* [minInterval, maxInterval) allows; rand.Int63n panics on an empty range.
shouldUpdateNodeAnnotations(node, minInterval, maxInterval, t) ==
    IF node.lastUpdate = Nil THEN {"update"}
    ELSE IF maxInterval <= minInterval THEN {"panic"}
    ELSE LET since == Seconds(t - Deref(node.lastUpdate))
         IN  {answer \in {"update", "skip"} :
                 \/ answer = "update" /\ since >= minInterval
                 \/ answer = "skip" /\ since < maxInterval}

\* One node of the loop of updateNodeAnnotations.  The copy of the listed
\* node takes the keys of the groups, and updateNodeWithRetry lays every
\* annotation of the copy over the node as the store has it then: where
\* another writer is at work (env.writers), latest is what it left in its
\* annotation since the list.
annotateNode(acc, n, churn, fault, t) ==
    LET node == acc.annotations[n]
        nodeFault == IF fault.op = "nodeWrite" /\ fault.ns = n
                     THEN [node |-> n, kind |-> fault.kind, at |-> fault.at]
                     ELSE NoNodeFault
        written(keys, latest) ==
            LET result == updateNodeWithRetry(nodeFault)
            IN  [acc EXCEPT
                   !.annotations[n] =
                       IF result.persisted = 0 THEN [@ EXCEPT !.other = latest]
                       ELSE [lastUpdate |-> IF "lastUpdate" \in keys THEN Ptr(t)
                                            ELSE node.lastUpdate,
                             lastSeen |-> Ptr(t),
                             other |-> IF node.other # Nil THEN node.other
                                       ELSE latest],
                   !.results = [m \in DOMAIN @ \cup {n} |->
                                   IF m = n
                                   THEN [attempts |-> result.attempts,
                                         persisted |-> result.persisted,
                                         err |-> result.err,
                                         keys |-> keys, latest |-> latest]
                                   ELSE @[m]]]
    IN  UNION {IF answer = "panic" THEN {[acc EXCEPT !.panic = TRUE]}
               ELSE IF answer = "skip" THEN {acc}
               ELSE {written(updateNetworkingAnnotations(net)
                             \cup updateMachineConfigAnnotations(mc)
                             \cup updateClusterAnnotations, latest) :
                        net \in IF churn.networkingAnnotations
                                THEN BOOLEAN ELSE {FALSE},
                        mc \in IF churn.machineConfigAnnotations
                               THEN BOOLEAN ELSE {FALSE},
                        latest \in IF "writers" \in DOMAIN env
                                   THEN OtherValues ELSE {node.other}} :
               answer \in shouldUpdateNodeAnnotations(
                              node, churn.updateIntervalMin,
                              churn.updateIntervalMax, t)}

RECURSIVE annotateLoop(_, _, _, _, _)
annotateLoop(accs, todo, churn, fault, t) ==
    IF todo = {} THEN accs
    ELSE LET n == CHOOSE m \in todo : \A k \in todo : m <= k
         IN  annotateLoop(
                 UNION {IF acc.panic THEN {acc}
                        ELSE annotateNode(acc, n, churn, fault, t) : acc \in accs},
                 todo \ {n}, churn, fault, t)

\* updateNodeAnnotations over the listed nodes.
updateNodeAnnotations(notes, churn, kwokNodes, fault, t) ==
    annotateLoop({[annotations |-> notes, results |-> << >>, panic |-> FALSE]},
                 kwokNodes, churn, fault, t)

(***************************************************************************)
(* Reconcile.  A call runs to its return in one step: the controller runs  *)
(* one Reconcile at a time (MaxConcurrentReconciles: 1).                   *)
(***************************************************************************)
\* What a Reconcile call did and returned.
NoTick ==
    [seq |-> 0, branch |-> "none", err |-> FALSE, requeue |-> FALSE,
     requeueAfter |-> 0, windowReset |-> FALSE, readmitted |-> FALSE,
     nsCreated |-> 0, nsDeleted |-> << >>,
     created |-> 0, deleted |-> 0, updated |-> 0, stale |-> 0,
     eventAttempts |-> 0, eventsCreated |-> 0, kindErrors |-> {},
     failed |-> FALSE, repeat |-> FALSE, nodeUpdates |-> << >>,
     nodeFault |-> NoNodeFault, nsFailed |-> FALSE, listFailed |-> FALSE,
     labels |-> {}, nsFailedAt |-> 0, retry |-> FALSE]

NoWindow == [sum |-> 0, rates |-> {}, denied |-> {}]

\* The state a call of Reconcile starts from, nothing done yet.
Here ==
    [config |-> config, namespaces |-> namespaces,
     apiCallCounter |-> apiCallCounter,
     lastRateLimitReset |-> lastRateLimitReset,
     lastReconcileTime |-> lastReconcileTime,
     resourceManagers |-> resourceManagers, status |-> status,
     window |-> window, annotations |-> annotations, tick |-> NoTick]

\* r.Get fails with an error other than NotFound.
getFailed ==
    {[Here EXCEPT !.tick.branch = "getError", !.tick.err = TRUE,
                  !.tick.failed = TRUE]}

\* handleDeletion: the object is gone.
handleDeletion(fault) ==
    {[Here EXCEPT
        !.namespaces = left.nss @@ Unlisted,
        !.resourceManagers = IF left.err THEN left.rms ELSE {},
        !.tick.branch = "deleted",
        !.tick.err = left.err,
        !.tick.failed = left.err \/ left.nss # NoNamespaces,
        !.tick.requeueAfter = IF left.err THEN 30 ELSE 0] :
     left \in cleanupManagedNamespaces(getManagedNamespaces(namespaces),
                                       resourceManagers, fault)}

\* The finalizer added to the copy in memory and never written.
addFinalizerInMemory(cfg, fault) ==
    {[Here EXCEPT !.tick.branch = "finalizer", !.tick.requeue = TRUE]}

\* The finalizer is added and the call asks for an immediate requeue.  The
\* store refuses a new finalizer on an object that is being deleted.
addFinalizer(cfg, fault) ==
    IF fault.op = "configWrite" \/ cfg.deletionTimestamp # Nil
    THEN {[Here EXCEPT !.tick.branch = "finalizer", !.tick.err = TRUE,
                       !.tick.failed = TRUE]}
    ELSE {[Here EXCEPT !.config = Ptr([cfg EXCEPT !.finalizer = TRUE]),
                       !.tick.branch = "finalizer", !.tick.requeue = TRUE]}

\* The deletion that does not wait for the cleanup delay.
deletesWithoutDelay(cfg, fault, t) ==
    {IF left.err
     THEN [Here EXCEPT !.tick.branch = "deletion", !.tick.err = TRUE,
                       !.tick.failed = TRUE, !.tick.requeueAfter = 30]
     ELSE [Here EXCEPT !.config = Nil, !.namespaces = left.nss @@ Unlisted,
                       !.resourceManagers = left.rms,
                       !.tick.branch = "deletion"] :
     left \in IF cfg.cleanupConfig.enabled
              THEN cleanupManagedNamespaces(getManagedNamespaces(namespaces),
                                            resourceManagers, fault)
              ELSE {[nss |-> getManagedNamespaces(namespaces),
                     rms |-> resourceManagers,
                     err |-> FALSE]}}

\* handleConfigDeletion: the object carries a deletion timestamp.  Once the
\* finalizer is removed the store deletes the object, unless it carries
\* another finalizer.
handleConfigDeletion(cfg, fault, t) ==
    LET cleanup == cfg.cleanupConfig
        lefts == IF cleanup.enabled
                 THEN cleanupManagedNamespaces(getManagedNamespaces(namespaces),
                                               resourceManagers, fault)
                 ELSE {[nss |-> getManagedNamespaces(namespaces),
                        rms |-> resourceManagers,
                        err |-> FALSE]}
        cleaned(left) ==
            [Here EXCEPT !.namespaces = left.nss @@ Unlisted,
                         !.resourceManagers = left.rms,
                         !.tick.branch = "deletion",
                         !.tick.failed = cleanup.enabled /\ left.nss # NoNamespaces]
        waiting == cleanup.enabled /\ cleanup.cleanupDelaySeconds > 0
                   /\ Seconds(t - Deref(cfg.deletionTimestamp))
                        < cleanup.cleanupDelaySeconds
    IN  {IF left.err
         THEN [cleaned(left) EXCEPT !.tick.err = TRUE, !.tick.failed = TRUE,
                                    !.tick.requeueAfter = 30]
         ELSE IF waiting
         THEN [cleaned(left) EXCEPT !.tick.requeueAfter = 10]
         ELSE IF fault.op = "configWrite"
         THEN [cleaned(left) EXCEPT !.tick.err = TRUE, !.tick.failed = TRUE]
         ELSE [cleaned(left) EXCEPT
                 !.config = IF cfg.otherFinalizers
                            THEN Ptr([cfg EXCEPT !.finalizer = FALSE])
                            ELSE Nil] :
         left \in lefts}

\* The disabled spec publishing what the store holds.
disabledReportsCounts(cfg, fault) ==
    LET st == updateStatus(status, cfg, Cardinality(nodes),
                           Cardinality(DOMAIN namespaces),
                           [r \in ResourceTypes |-> 0], fault)
    IN  {[Here EXCEPT !.status = st.status, !.tick.branch = "disabled",
                      !.tick.err = st.err, !.tick.failed = st.err]}

\* The spec is disabled: updateStatus(ctx, config, 0, 0, {}) and return.
disabled(cfg, fault) ==
    LET st == updateStatus(status, cfg, 0, 0, [r \in ResourceTypes |-> 0], fault)
    IN  {[Here EXCEPT !.status = st.status, !.tick.branch = "disabled",
                      !.tick.err = st.err, !.tick.failed = st.err]}

\* The rest of Reconcile for an enabled spec, from getKwokNodes on.
active(cfg, fault, t) ==
    LET nodeCount == Cardinality(nodes)
        targetNamespaces == targetNamespacesOf[cfg.loadProfile][nodeCount]
        effective == getEffectiveAPIRate(cfg.loadProfile, nodeCount)
        estimatedAPICalls == targetNamespaces * 5
        limiter == checkAPIRateLimit(
                       [counter |-> apiCallCounter, reset |-> lastRateLimitReset],
                       cfg.loadProfile, estimatedAPICalls, nodeCount, t)
        windowReset == limiter.reset # lastRateLimitReset
        opened == IF windowReset THEN NoWindow ELSE window
        checked ==
            [Here EXCEPT
                !.apiCallCounter = limiter.counter,
                !.lastRateLimitReset = limiter.reset,
                !.window = IF limiter.admitted
                           THEN [opened EXCEPT !.sum = @ + estimatedAPICalls,
                                               !.rates = @ \cup {effective.rate}]
                           ELSE [opened EXCEPT !.denied = @ \cup {estimatedAPICalls}],
                !.tick.windowReset = windowReset,
                !.tick.readmitted = /\ windowReset /\ limiter.admitted
                                    /\ estimatedAPICalls \in window.denied]
        managed(o) ==
            [checked EXCEPT
                !.namespaces = o.nss @@ Unlisted,
                !.resourceManagers = o.rms,
                !.tick.branch = "active",
                !.tick.nsCreated = o.nsCreated,
                !.tick.nsDeleted = o.nsDeleted,
                !.tick.created = o.work.created,
                !.tick.deleted = o.work.deleted,
                !.tick.updated = o.work.updated,
                !.tick.stale = o.work.stale,
                !.tick.eventAttempts = o.work.eventAttempts,
                !.tick.eventsCreated = o.work.eventsCreated,
                !.tick.kindErrors = o.work.kindErrors,
                !.tick.nsFailed = o.nsFailed,
                !.tick.nsFailedAt = IF o.nsFailed THEN fault.at ELSE 0,
                !.tick.labels = o.work.labels,
                !.tick.listFailed = o.listFailed,
                !.tick.failed = \/ o.err
                                \/ o.work.kindErrors # {}
                                \/ o.work.stale > 0
                                \/ o.work.eventsCreated < o.work.eventAttempts]
        churned ==
            IF cfg.annotationChurn.enabled
            THEN updateNodeAnnotations(annotations, cfg.annotationChurn, nodes,
                                       fault, t)
            ELSE {[annotations |-> annotations, results |-> << >>,
                   panic |-> FALSE]}
        \* A panic of updateNodeAnnotations ends the call: the controller
        \* recovers it and returns an error, or the process ends and starts
        \* again with an empty reconciler.
        finish(o, a) ==
            LET st == updateStatus(status, cfg, nodeCount, o.namespaceCount,
                                   o.work.counts, fault)
                lost == \E n \in DOMAIN a.results : a.results[n].err # "none"
                met == IF fault.op = "nodeWrite" /\ fault.ns \in DOMAIN a.results
                       THEN [node |-> fault.ns, kind |-> fault.kind,
                             at |-> fault.at]
                       ELSE NoNodeFault
                panicked == [managed(o) EXCEPT
                                !.lastReconcileTime = Ptr(t),
                                !.annotations = a.annotations,
                                !.tick.nodeUpdates = a.results,
                                !.tick.nodeFault = met,
                                !.tick.branch = "panic",
                                !.tick.err = TRUE,
                                !.tick.failed = TRUE]
            IN  IF o.err THEN {[managed(o) EXCEPT !.tick.err = TRUE]}
                ELSE IF a.panic
                THEN {panicked,
                      [panicked EXCEPT !.apiCallCounter = 0,
                                       !.lastRateLimitReset = Nil,
                                       !.lastReconcileTime = Nil,
                                       !.resourceManagers = {},
                                       !.window = NoWindow]}
                ELSE {[managed(o) EXCEPT
                        !.lastReconcileTime = Ptr(t),
                        !.annotations = a.annotations,
                        !.tick.nodeUpdates = a.results,
                        !.tick.nodeFault = met,
                        !.status = st.status,
                        !.tick.err = st.err,
                        !.tick.failed = @ \/ st.err \/ lost,
                        !.tick.requeueAfter =
                            IF st.err THEN 0
                            ELSE calculateReconcileInterval(cfg.loadProfile)]}
    IN  IF fault.op = "nodeList"
        THEN {[Here EXCEPT !.tick.branch = "nodeListError", !.tick.err = TRUE,
                           !.tick.failed = TRUE]}
        ELSE IF ~limiter.admitted
        THEN {[checked EXCEPT !.tick.branch = "denied",
                              !.tick.requeueAfter = 60]}
        ELSE UNION {finish(o, a) :
                       o \in manageLoadResources(getManagedNamespaces(namespaces),
                                                 resourceManagers,
                                                 cfg, nodes, targetNamespaces,
                                                 fault, lastReconcileTime, t),
                       a \in churned}

\* The results a Reconcile call may have when the store fails as fault says.
reconcile(fault) ==
    IF fault.op = "configGet" THEN getFailed
    ELSE IF config = Nil THEN handleDeletion(fault)
    ELSE LET cfg == Deref(config)
         IN  IF ~cfg.finalizer THEN addFinalizer(cfg, fault)
             ELSE IF cfg.deletionTimestamp # Nil
             THEN handleConfigDeletion(cfg, fault, now)
             ELSE IF ~cfg.enabled THEN disabled(cfg, fault)
             ELSE active(cfg, fault, now)

MaxFaults == 1

MaxFaultAt == 2

MaxFaultNs == 2

\* The consecutive writes of a node that may meet a conflict.
MaxConflicts == 6

\* The failures the store may answer a Reconcile call with: one kind of
\* call fails, for the object kinds the spec enables.
Faults ==
    LET kinds == IF config = Nil THEN {}
                 ELSE {k \in CountKinds : Deref(config).resourceChurn[k].enabled}
        events == config # Nil /\ Deref(config).events.enabled
        churn == config # Nil /\ Deref(config).annotationChurn.enabled
    IN  IF env.faults = 0 THEN {NoFault}
        ELSE {NoFault}
             \cup {[NoFault EXCEPT !.op = op] :
                      op \in {"configGet", "configWrite", "statusWrite",
                              "nodeList", "nsList"}}
             \cup {[NoFault EXCEPT !.op = "nsWrite", !.at = at] :
                      at \in 1..MaxFaultAt}
             \cup {[op |-> op, ns |-> ns, kind |-> kind, at |-> at] :
                      op \in {"objWrite", "svcWrite"}, ns \in 1..MaxFaultNs,
                      kind \in kinds, at \in 1..MaxFaultAt}
             \cup {[op |-> "objList", ns |-> ns, kind |-> kind, at |-> 0] :
                      ns \in 1..MaxFaultNs, kind \in kinds}
             \cup {[op |-> "nsGet", ns |-> ns, kind |-> "none", at |-> 0] :
                      ns \in 1..MaxFaultNs}
             \cup {[op |-> "objUpdate", ns |-> ns, kind |-> kind, at |-> at] :
                      ns \in 1..MaxFaultNs, kind \in kinds \cap ChurnedKinds,
                      at \in 1..MaxFaultAt}
             \cup {[op |-> "eventWrite", ns |-> ns, kind |-> "none", at |-> at] :
                      ns \in IF events THEN 1..MaxFaultNs ELSE {},
                      at \in 1..MaxFaultAt}
             \cup {[op |-> "nodeWrite", ns |-> n, kind |-> kind, at |-> at] :
                      n \in IF churn THEN nodes ELSE {},
                      kind \in {"conflict", "error", "getError"},
                      at \in 1..MaxConflicts}

\* The Reconcile calls a run with tracking follows.
MaxTicks == 4

\* r.ErrorCount.Inc(): the returns of Reconcile that count an error.
countsError(tick) ==
    tick.err /\ tick.branch \in {"getError", "finalizer", "nodeListError",
                                  "active"}

\* Where env carries them, ticks counts the Reconcile calls and errors
\* those that counted an error.
ReconcileCall ==
    \E fault \in Faults :
        \E o \in reconcile(fault) :
            /\ "ticks" \in DOMAIN env => env.ticks < MaxTicks
            /\ config' = o.config
            /\ namespaces' = o.namespaces
            /\ apiCallCounter' = o.apiCallCounter
            /\ lastRateLimitReset' = o.lastRateLimitReset
            /\ lastReconcileTime' = o.lastReconcileTime
            /\ resourceManagers' = o.resourceManagers
            /\ status' = o.status
            /\ window' = o.window
            /\ settled' = CASE o.tick.branch = "active" -> ~o.tick.failed
                             [] o.tick.branch = "denied" -> settled
                             [] OTHER -> FALSE
            /\ lastTick' = [o.tick EXCEPT !.seq = 1 - lastTick.seq,
                                          !.repeat = settled,
                                          !.retry = lastTick.nsFailed]
            /\ env' = LET spent == IF fault # NoFault /\ o.tick.failed
                                   THEN [env EXCEPT !.faults = @ - 1]
                                   ELSE env
                      IN  IF "ticks" \in DOMAIN env
                          THEN [spent EXCEPT
                                  !.ticks = @ + 1,
                                  !.errors = IF countsError(o.tick)
                                             THEN @ + 1 ELSE @]
                          ELSE spent
            /\ annotations' = o.annotations
            /\ UNCHANGED <<now, nodes, calc>>

\* The one worker of the controller runs Reconcile for the one spec object.
Reconcile == ReconcileCall /\ UNCHANGED manager

(***************************************************************************)
(* The surroundings: the clock, the nodes and the user.                    *)
(***************************************************************************)
AdvanceTime ==
    /\ now < MaxTime
    /\ now' = now + 1
    /\ lastTick' = NoTick
    /\ UNCHANGED <<env, config, nodes, namespaces, apiCallCounter,
                   lastRateLimitReset, lastReconcileTime, resourceManagers,
                   status, window, settled, calc, annotations,
                   manager>>

NodeJoin ==
    /\ \E n \in (1..MaxNodes) \ nodes : nodes' = nodes \cup {n}
    /\ settled' = FALSE
    /\ lastTick' = NoTick
    /\ UNCHANGED <<env, now, config, namespaces, apiCallCounter,
                   lastRateLimitReset, lastReconcileTime, resourceManagers,
                   status, window, calc, annotations, manager>>

NodeLeave ==
    /\ \E n \in nodes :
          /\ nodes' = nodes \ {n}
          /\ annotations' = [annotations EXCEPT ![n] = NoAnnotations]
    /\ settled' = FALSE
    /\ lastTick' = NoTick
    /\ UNCHANGED <<env, now, config, namespaces, apiCallCounter,
                   lastRateLimitReset, lastReconcileTime, resourceManagers,
                   status, window, calc, manager>>

\* The user deletes the ScaleLoadConfig: with a finalizer the store only
\* stamps the object.
DeleteConfig ==
    /\ config # Nil
    /\ Deref(config).deletionTimestamp = Nil
    /\ config' = IF Deref(config).finalizer \/ Deref(config).otherFinalizers
                 THEN Ptr([Deref(config) EXCEPT !.deletionTimestamp = Ptr(now)])
                 ELSE Nil
    /\ settled' = FALSE
    /\ lastTick' = NoTick
    /\ UNCHANGED <<env, now, nodes, namespaces, apiCallCounter,
                   lastRateLimitReset, lastReconcileTime, resourceManagers,
                   status, window, calc, annotations, manager>>

\* Another writer sets or removes its annotation of a node.
OtherWriter ==
    /\ "writers" \in DOMAIN env
    /\ \E n \in nodes, v \in OtherValues :
          /\ annotations[n].other # v
          /\ annotations' = [annotations EXCEPT ![n].other = v]
    /\ lastTick' = NoTick
    /\ UNCHANGED <<env, now, config, nodes, namespaces, apiCallCounter,
                   lastRateLimitReset, lastReconcileTime, resourceManagers,
                   status, window, settled, calc, manager>>

\* The name of a second ScaleLoadConfig.
OtherName == "T"

Keys == {ConfigName, OtherName}

\* A controller with a second worker.
TwoWorkers == 1 + 1

\* controller.Options{MaxConcurrentReconciles: 1}
MaxConcurrentReconciles == 1

Workers == 1..MaxConcurrentReconciles

\* The fields of the reconciler that Reconcile reads and writes.
Runtime ==
    [apiCallCounter |-> apiCallCounter,
     lastRateLimitReset |-> lastRateLimitReset,
     lastReconcileTime |-> lastReconcileTime,
     resourceManagers |-> resourceManagers]

\* The controller of one ScaleLoadConfig: no request queued, none in work.
\* view names the ScaleLoadConfig whose objects config, namespaces and status
\* hold, other holds the objects of the other one, and own[k] is what the
\* last Reconcile of k left in the fields of the reconciler.
NoManager ==
    [queue |-> << >>, dirty |-> {}, processing |-> << >>,
     view |-> ConfigName,
     other |-> [config |-> Nil, namespaces |-> NoNamespaces,
                status |-> NoStatus],
     own |-> [k \in Keys |->
                 [apiCallCounter |-> 0, lastRateLimitReset |-> Nil,
                  lastReconcileTime |-> Nil, resourceManagers |-> {}]]]

InitAll(e, c, ns, m) ==
    /\ env = e
    /\ now = 0
    /\ config = Ptr(c)
    /\ nodes = ns
    /\ namespaces = NoNamespaces
    /\ apiCallCounter = 0
    /\ lastRateLimitReset = Nil
    /\ lastReconcileTime = Nil
    /\ resourceManagers = {}
    /\ status = NoStatus
    /\ window = NoWindow
    /\ settled = FALSE
    /\ lastTick = NoTick
    /\ calc = NoCall
    /\ annotations = [n \in 1..MaxNodes |-> NoAnnotations]
    /\ manager = m

InitWith(e, c, ns) == InitAll(e, c, ns, NoManager)

\* One namespace per node; one Reconcile call may meet a failing store.
Init == InitWith([faults |-> MaxFaults], NamespaceConfig, {})

Next ==
    \/ Reconcile
    \/ AdvanceTime
    \/ NodeJoin
    \/ NodeLeave
    \/ DeleteConfig

Spec == Init /\ [][Next]_vars

\* Resources and events in the namespaces; the store does not fail.
ChurnSpec ==
    InitWith([faults |-> 0], ChurnConfig, {})
    /\ [][Next]_vars

\* A node set that does not change and a store that does not fail.  The
\* controller requeues after every return of Reconcile (Requeue,
\* RequeueAfter, or the rate-limited requeue of a returned error), so
\* Reconcile is called again and again.
LiveNext ==
    \/ Reconcile
    \/ AdvanceTime

LiveSpec ==
    /\ \E c \in {NamespaceConfig, StaticRateConfig}, ns \in SUBSET (1..MaxNodes) :
          InitWith([faults |-> 0], c, ns)
    /\ [][LiveNext]_vars
    /\ WF_vars(Reconcile)

\* The user switches spec.enabled.
SetEnabled ==
    /\ config # Nil
    /\ Deref(config).deletionTimestamp = Nil
    /\ config' = Ptr([Deref(config) EXCEPT !.enabled = ~@])
    /\ settled' = FALSE
    /\ lastTick' = NoTick
    /\ UNCHANGED <<env, now, nodes, namespaces, apiCallCounter,
                   lastRateLimitReset, lastReconcileTime, resourceManagers,
                   status, window, calc, annotations, manager>>

\* The user edits and deletes the spec of a cluster of one node; cleanup is
\* on with a delay of 30 seconds, or off; one Reconcile call may meet a
\* failing store.
UserNext ==
    \/ Reconcile
    \/ AdvanceTime
    \/ DeleteConfig
    \/ SetEnabled

UserSpec ==
    /\ \E c \in {StaticRateConfig, KeepConfig} :
          InitWith([faults |-> MaxFaults], c, {1})
    /\ [][UserNext]_vars

\* The same user and store, and a spec with cleanup on deletion switched off.
KeepSpec ==
    InitWith([faults |-> MaxFaults], KeepConfig, {1}) /\ [][UserNext]_vars

\* The same user and store, and a spec object another controller holds.
HeldSpec ==
    InitWith([faults |-> MaxFaults], HeldConfig, {1}) /\ [][UserNext]_vars

\* A rate budget of 12 calls for two namespaces per node, and nodes that
\* come and go.
BudgetNext ==
    \/ Reconcile
    \/ AdvanceTime
    \/ NodeJoin
    \/ NodeLeave

BudgetSpec ==
    InitWith([faults |-> 0], StaticRateConfig, {})
    /\ [][BudgetNext]_vars

\* Annotation churn on the nodes of a cluster that does not change; the
\* writes of one node may meet conflicts or another error in one Reconcile
\* call.
AnnotSpec ==
    InitWith([faults |-> MaxFaults],
             [AnnotConfig EXCEPT
                 !.annotationChurn.machineConfigAnnotations = FALSE],
             1..MaxNodes)
    /\ [][LiveNext]_vars

\* A spec whose extra namespace labels use the managed-by key, on a cluster
\* that does not change; the store does not fail, and the calls of Reconcile
\* are counted.
LabelSpec ==
    /\ \E ns \in SUBSET (1..MaxNodes) :
          InitWith([faults |-> 0, ticks |-> 0, errors |-> 0], LabelConfig, ns)
    /\ [][LiveNext]_vars

\* Any of the explicit ratios on a cluster whose nodes join and leave; the
\* store does not fail, and the calls of Reconcile are counted.
RatioSpec ==
    /\ \E c \in RatioConfigs :
          InitWith([faults |-> 0, ticks |-> 0, errors |-> 0], c, {})
    /\ [][BudgetNext]_vars

\* Annotation churn on one node whose annotations another writer changes
\* too, between the ticks and between the list and the write of a tick.
RaceSpec ==
    /\ InitWith([faults |-> 0, writers |-> TRUE], AnnotConfig, {1})
    /\ [][Reconcile \/ AdvanceTime \/ OtherWriter]_vars

\* Annotation churn of any of these settings on one node; the store does
\* not fail.
NodeSpec ==
    /\ \E c \in AnnotConfigs :
          InitWith([faults |-> 0], c, {1})
    /\ [][LiveNext]_vars

\* A spec of any profile on nodes that come and go.
ProfileSpec ==
    /\ \E c \in ProfileConfigs :
          InitWith([faults |-> MaxFaults], c, {})
    /\ [][BudgetNext]_vars

\* The calls of Reconcile and their errors are counted; one call may meet a
\* failing store.
TrackSpec ==
    InitWith([faults |-> MaxFaults, ticks |-> 0, errors |-> 0], NamespaceConfig, {1})
    /\ [][LiveNext]_vars

\* Every part of a tick at work: namespaces, objects of two kinds, events
\* and node annotations, on nodes that leave; one Reconcile call may meet a
\* failing store.
FailSpec ==
    /\ InitWith([faults |-> MaxFaults], FullConfig, 1..MaxNodes)
    /\ [][Reconcile \/ NodeLeave]_vars

\* workqueue.Add of the request for k, by a watch event or a requeue timer.
Enqueue ==
    /\ \E k \in Keys :
          /\ k \notin manager.dirty
          /\ manager' =
                [manager EXCEPT
                   !.dirty = @ \cup {k},
                   !.queue = IF \E w \in DOMAIN manager.processing :
                                    manager.processing[w] = k
                             THEN @ ELSE Append(@, k)]
    /\ UNCHANGED <<env, now, config, nodes, namespaces, apiCallCounter,
                   lastRateLimitReset, lastReconcileTime, resourceManagers,
                   status, window, settled, lastTick, calc, annotations>>

\* workqueue.Get by an idle worker: the request leaves the queue and the
\* dirty set and is in work; the worker calls Reconcile for it.
StartReconcile ==
    /\ manager.queue # << >>
    /\ \E w \in Workers \ DOMAIN manager.processing :
          LET k == Head(manager.queue)
              taken == [manager EXCEPT
                          !.queue = Tail(@),
                          !.dirty = @ \ {k},
                          !.processing = [v \in DOMAIN @ \cup {w} |->
                                             IF v = w THEN k ELSE @[v]]]
          IN  IF k = manager.view
              THEN /\ manager' = taken
                   /\ UNCHANGED <<config, namespaces, status, settled>>
              ELSE /\ manager' =
                         [taken EXCEPT
                            !.view = k,
                            !.other = [config |-> config,
                                       namespaces |-> namespaces,
                                       status |-> status]]
                   /\ config' = manager.other.config
                   /\ namespaces' = manager.other.namespaces
                   /\ status' = manager.other.status
                   /\ settled' = FALSE
    /\ lastTick' = NoTick
    /\ UNCHANGED <<env, now, nodes, apiCallCounter, lastRateLimitReset,
                   lastReconcileTime, resourceManagers, window, calc,
                   annotations>>

\* Reconcile returns and the worker calls workqueue.Done: a request added
\* while this one was in work is queued now.
FinishReconcile ==
    \E w \in DOMAIN manager.processing :
        LET k == manager.processing[w]
        IN  /\ k = manager.view
            /\ ReconcileCall
            /\ manager' =
                  [manager EXCEPT
                     !.processing = [v \in DOMAIN @ \ {w} |-> @[v]],
                     !.queue = IF k \in manager.dirty THEN Append(@, k) ELSE @,
                     !.own[k] = [apiCallCounter |-> apiCallCounter',
                                 lastRateLimitReset |-> lastRateLimitReset',
                                 lastReconcileTime |-> lastReconcileTime',
                                 resourceManagers |-> resourceManagers']]

\* Two ScaleLoadConfigs on a cluster of one node and a store that does not
\* fail; watch events and timers add requests at any time.
MgrSpec ==
    /\ InitAll([faults |-> 0], NamespaceConfig, {1},
               [NoManager EXCEPT !.other.config = Ptr(NamespaceConfig)])
    /\ [][\/ Enqueue
          \/ StartReconcile
          \/ FinishReconcile
          \/ AdvanceTime
          \/ DeleteConfig]_vars

MaxCount == 2

MaxInterval == 2

\* The user edits the count of an enabled resource type.
UpdateResourceCount ==
    /\ config # Nil
    /\ Deref(config).deletionTimestamp = Nil
    /\ \E kind \in CountKinds, count \in 0..MaxCount :
          /\ Deref(config).resourceChurn[kind].enabled
          /\ Deref(config).resourceChurn[kind].count # count
          /\ config' = Ptr([Deref(config) EXCEPT
                                !.resourceChurn[kind].count = count])
    /\ settled' = FALSE
    /\ lastTick' = NoTick
    /\ UNCHANGED <<env, now, nodes, namespaces, apiCallCounter,
                   lastRateLimitReset, lastReconcileTime, resourceManagers,
                   status, window, calc, annotations, manager>>

\* One node, one namespace, a varying ImageStream count, a store that does
\* not fail and that nobody else writes.
\* The user edits the namespace interval of an enabled resource type.
UpdateInterval ==
    /\ config # Nil
    /\ Deref(config).deletionTimestamp = Nil
    /\ \E kind \in CountKinds, interval \in 1..MaxInterval :
          /\ Deref(config).resourceChurn[kind].enabled
          /\ Deref(config).resourceChurn[kind].namespaceInterval # interval
          /\ config' = Ptr([Deref(config) EXCEPT
                                !.resourceChurn[kind].namespaceInterval = interval])
    /\ settled' = FALSE
    /\ lastTick' = NoTick
    /\ UNCHANGED <<env, now, nodes, namespaces, apiCallCounter,
                   lastRateLimitReset, lastReconcileTime, resourceManagers,
                   status, window, calc, annotations, manager>>

ScaleNext ==
    \/ Reconcile
    \/ AdvanceTime
    \/ UpdateResourceCount

ScaleSpec ==
    InitWith([faults |-> 0], ScaleConfig, {1})
    /\ [][ScaleNext]_vars

\* One node, one namespace, varying ConfigMap and Route counts, and a store
\* that does not fail.
EditSpec ==
    InitWith([faults |-> 0], EditConfig, {1})
    /\ [][ScaleNext]_vars

\* Two nodes, two namespaces and ImageStreams whose namespace interval the
\* user edits; the store does not fail.
IntervalSpec ==
    /\ InitWith([faults |-> 0], ScaleConfig, 1..MaxNodes)
    /\ [][Reconcile \/ AdvanceTime \/ UpdateInterval]_vars

\* One node, one namespace, events at any of the rates, and a store that may
\* refuse one call.
EventSpec ==
    /\ \E c \in EventConfigs :
          InitWith([faults |-> 1], c, {1})
    /\ [][LiveNext]_vars

(***************************************************************************)
(* Calls of the pure functions on inputs drawn from bounded sets.          *)
(***************************************************************************)
CalcRatios ==
    {<<"0", ".", "2">>, <<"0", ".", "6">>, <<"1", ".", "0">>, <<"2">>,
     <<"0", ".", "2", "8">>, <<"0", ".", "2", "5">>, <<"1", ".", "1">>}

CalcNodeCounts == 0..MaxCalcNodes \cup {126, 500}

CalcRates == {Nil, Ptr(20), Ptr(200), Ptr(5000)}

CalcTargetNamespaces ==
    /\ calc = NoCall
    /\ \E profile \in Profiles, ratio \in {Nil} \cup {Ptr(r) : r \in CalcRatios},
       n \in CalcNodeCounts :
        LET loadProfile == [profile |-> profile, namespacesPerNode |-> ratio]
        IN  calc' = [fn |-> "calculateTargetNamespaces",
                     loadProfile |-> loadProfile, nodeCount |-> n,
                     result |-> calculateTargetNamespaces(loadProfile, n)]
    /\ UNCHANGED <<env, now, config, nodes, namespaces, apiCallCounter,
                   lastRateLimitReset, lastReconcileTime, resourceManagers,
                   status, window, settled, lastTick, annotations,
                   manager>>

CalcEffectiveRate ==
    /\ calc = NoCall
    /\ \E static \in CalcRates, perNode \in CalcRates, deprecated \in CalcRates,
       n \in {0, 1, 3, 500} :
        LET loadProfile == [apiCallRateStatic |-> static,
                            apiCallRatePerNode |-> perNode,
                            apiCallRate |-> deprecated]
        IN  calc' = [fn |-> "getEffectiveAPIRate",
                     loadProfile |-> loadProfile, nodeCount |-> n,
                     result |-> getEffectiveAPIRate(loadProfile, n).rate]
    /\ UNCHANGED <<env, now, config, nodes, namespaces, apiCallCounter,
                   lastRateLimitReset, lastReconcileTime, resourceManagers,
                   status, window, settled, lastTick, annotations,
                   manager>>

CalcInit == InitWith([faults |-> 0], BaseConfig, {})

(***************************************************************************)
(* The admission webhook: ValidateCreate and ValidateUpdate.               *)
(***************************************************************************)
\* The validation that only counts the rate fields.
countsRateFields(loadProfile) ==
    IF Cardinality({f \in {"apiCallRateStatic", "apiCallRatePerNode",
                           "apiCallRate"} : loadProfile[f] # Nil}) > 1
    THEN "only one API rate limiting approach can be specified"
    ELSE "ok"

\* validateAPIRateConfiguration: "ok", or the error it returns.
validateAPIRateConfiguration(loadProfile) ==
    LET static == loadProfile.apiCallRateStatic
        perNode == loadProfile.apiCallRatePerNode
        deprecated == loadProfile.apiCallRate
    IN  IF \/ static # Nil /\ perNode # Nil
           \/ static # Nil /\ deprecated # Nil
           \/ perNode # Nil /\ deprecated # Nil
        THEN "only one API rate limiting approach can be specified"
        ELSE IF static # Nil /\ Deref(static) <= 0
        THEN "apiCallRateStatic must be positive"
        ELSE IF perNode # Nil /\ Deref(perNode) <= 0
        THEN "apiCallRatePerNode must be positive"
        ELSE IF deprecated # Nil /\ Deref(deprecated) <= 0
        THEN "apiCallRate must be positive"
        ELSE "ok"

\* The rate values a user writes into a field.
WrittenRates == {Nil, Ptr(0 - 5), Ptr(0), Ptr(20), Ptr(5000)}

RateProfiles ==
    [apiCallRateStatic : WrittenRates, apiCallRatePerNode : WrittenRates,
     apiCallRate : WrittenRates]

\* ValidateCreate on the object the user creates.
ValidateCreate ==
    /\ calc = NoCall
    /\ \E new \in RateProfiles :
          calc' = [fn |-> "ValidateCreate", new |-> new, old |-> new,
                   result |-> validateAPIRateConfiguration(new)]
    /\ UNCHANGED <<env, now, config, nodes, namespaces, apiCallCounter,
                   lastRateLimitReset, lastReconcileTime, resourceManagers,
                   status, window, settled, lastTick, annotations,
                   manager>>

\* ValidateUpdate on the new object; the old one was accepted before.
ValidateUpdate ==
    /\ calc = NoCall
    /\ \E new \in RateProfiles,
          old \in {o \in RateProfiles : validateAPIRateConfiguration(o) = "ok"} :
          calc' = [fn |-> "ValidateUpdate", new |-> new, old |-> old,
                   result |-> validateAPIRateConfiguration(new)]
    /\ UNCHANGED <<env, now, config, nodes, namespaces, apiCallCounter,
                   lastRateLimitReset, lastReconcileTime, resourceManagers,
                   status, window, settled, lastTick, annotations,
                   manager>>

ValidateSpec == CalcInit /\ [][ValidateCreate \/ ValidateUpdate]_vars

CalcSpec == CalcInit /\ [][CalcTargetNamespaces \/ CalcEffectiveRate]_vars

(***************************************************************************)
(* The scaling planner and the rate budget.                                *)
(***************************************************************************)
\* The decimal p / 10^k a ratio string spells.
DecimalOf(s) ==
    LET point == {i \in 1..Len(s) : s[i] = "."}
    IN  [p |-> DigitsToNat(SelectDigits(s)),
         k |-> IF point = {} THEN 0 ELSE Len(s) - (CHOOSE i \in point : TRUE)]

\* The ratio the documentation gives a load profile, as a decimal.
DocumentedRatio(loadProfile) ==
    IF loadProfile.namespacesPerNode # Nil
    THEN DecimalOf(Deref(loadProfile.namespacesPerNode))
    ELSE CASE loadProfile.profile = "development" -> [p |-> 2, k |-> 1]
           [] loadProfile.profile = "staging" -> [p |-> 4, k |-> 1]
           [] loadProfile.profile = "extreme" -> [p |-> 10, k |-> 1]
           [] OTHER -> [p |-> 6, k |-> 1]

\* ceil(n * p / 10^k) in exact arithmetic
ExactCeil(n, p, k) == (n * p + Pow(10, k) - 1) \div Pow(10, k)

\* C1: for every node count N >= 0, calculateTargetNamespaces returns
\* ceil(N x ratio), the ratio being the explicit namespacesPerNode when one
\* is configured and the default of the profile otherwise (0.2, 0.4, 0.6,
\* 1.0, and 0.6 for any other name); 0 for N = 0, 6 for N = 10 with 0.6, and
\* 76 for N = 126 with 0.6.
C1_TargetIsCeiling ==
    calc.fn = "calculateTargetNamespaces" =>
        LET ratio == DocumentedRatio(calc.loadProfile)
        IN  /\ calc.result = ExactCeil(calc.nodeCount, ratio.p, ratio.k)
            /\ calc.nodeCount = 0 => calc.result = 0
            /\ ratio = [p |-> 6, k |-> 1] /\ calc.nodeCount = 10 => calc.result = 6
            /\ ratio = [p |-> 6, k |-> 1] /\ calc.nodeCount = 126 => calc.result = 76

\* C4: the effective rate is the static total when it is set, whatever the
\* node count; else the per-node rate times the node count; else the
\* deprecated rate times the node count; else 20 times the node count.  A
\* per-node rate of 200 with 500 nodes gives 100000.
C4_RatePrecedence ==
    calc.fn = "getEffectiveAPIRate" =>
        LET loadProfile == calc.loadProfile
            n == calc.nodeCount
        IN  /\ loadProfile.apiCallRateStatic # Nil =>
                    calc.result = Deref(loadProfile.apiCallRateStatic)
            /\ loadProfile.apiCallRateStatic = Nil
                  /\ loadProfile.apiCallRatePerNode # Nil =>
                    calc.result = Deref(loadProfile.apiCallRatePerNode) * n
            /\ loadProfile.apiCallRateStatic = Nil
                  /\ loadProfile.apiCallRatePerNode = Nil
                  /\ loadProfile.apiCallRate # Nil =>
                    calc.result = Deref(loadProfile.apiCallRate) * n
            /\ loadProfile.apiCallRateStatic = Nil
                  /\ loadProfile.apiCallRatePerNode = Nil
                  /\ loadProfile.apiCallRate = Nil =>
                    calc.result = 20 * n
            /\ loadProfile.apiCallRateStatic = Nil
                  /\ loadProfile.apiCallRatePerNode = Ptr(200) /\ n = 500 =>
                    calc.result = 100000

\* A per-node rate of 200 was resolved for 500 nodes while the deprecated
\* rate was set too.
C4_Witness ==
    /\ calc.fn = "getEffectiveAPIRate"
    /\ calc.loadProfile.apiCallRateStatic = Nil
    /\ calc.loadProfile.apiCallRatePerNode = Ptr(200)
    /\ calc.loadProfile.apiCallRate = Ptr(20)
    /\ calc.nodeCount = 500
    /\ calc.result = 100000

\* The target and the effective rate of the spec for the nodes in the store.
TargetNow == targetNamespacesOf[Deref(config).loadProfile][Cardinality(nodes)]

RateNow == getEffectiveAPIRate(Deref(config).loadProfile, Cardinality(nodes)).rate

\* The step is a Reconcile call that reached the rate check.
RateChecked == lastTick'.branch \in {"active", "denied"}

\* C2: within one rate window, the estimated calls of the admitted requests
\* sum to at most the effective rate R they were admitted against.
C2_AdmittedWithinBudget ==
    \A R \in window.rates : window.rates = {R} => window.sum <= R

\* Two or more requests used up the whole budget of a window, and a further
\* one was denied.
C2_Witness ==
    \E R \in window.rates :
        /\ window.rates = {R}
        /\ window.sum = R
        /\ R > 0
        /\ window.denied # {}
        /\ \A size \in window.denied : size < R

\* C3: a rate check made a minute or more after the window started sets the
\* counter to 0 and the window start to now before it decides; so a request
\* of size <= R, denied in the window before, is admitted.
C3_WindowReset ==
    [][RateChecked /\ lastRateLimitReset # Nil
         /\ now - Deref(lastRateLimitReset) >= UnitsPerMinute
       => /\ lastRateLimitReset' = Ptr(now)
          /\ lastTick'.windowReset
          /\ IF TargetNow * 5 <= RateNow
             THEN lastTick'.branch = "active" /\ apiCallCounter' = TargetNow * 5
             ELSE lastTick'.branch = "denied" /\ apiCallCounter' = 0]_vars

\* A request denied in one window was admitted by the check that opened the
\* next window.
C3_Witness ==
    /\ lastTick.branch = "active"
    /\ lastTick.readmitted
    /\ lastRateLimitReset = Ptr(now)
    /\ now >= UnitsPerMinute

\* C5: an admitted tick of an enabled spec in which every store call
\* succeeds creates target - current namespaces when below the target,
\* deletes current - target when above, neither when equal, and leaves
\* target managed namespaces.
C5_ScaleToTarget ==
    [][lastTick'.branch = "active" /\ ~lastTick'.failed
       => LET c == Cardinality(DOMAIN namespaces)
              t == TargetNow
              made == DOMAIN namespaces' \ DOMAIN namespaces
              gone == DOMAIN namespaces \ DOMAIN namespaces'
          IN  /\ lastTick'.nsCreated = IF c < t THEN t - c ELSE 0
              /\ Len(lastTick'.nsDeleted) = IF c > t THEN c - t ELSE 0
              /\ Cardinality(made) = lastTick'.nsCreated
              /\ Cardinality(gone) = Len(lastTick'.nsDeleted)
              /\ Cardinality(DOMAIN namespaces') = t]_vars

\* A tick without a failure deleted one of two namespaces.
C5_Witness ==
    /\ lastTick.branch = "active"
    /\ ~lastTick.failed
    /\ Len(lastTick.nsDeleted) = 1
    /\ Cardinality(DOMAIN namespaces) = 1

\* C7: a scale-down deletes oldest first: no deleted namespace was created
\* later than a retained one, and the first deleted has the earliest
\* creation timestamp of all, whatever order the list came in.
C7_OldestFirst ==
    [][lastTick'.branch = "active" /\ lastTick'.nsDeleted # << >>
       => LET gone == DOMAIN namespaces \ DOMAIN namespaces'
              kept == DOMAIN namespaces'
          IN  /\ kept \subseteq DOMAIN namespaces
              /\ \A g \in gone, k \in kept :
                     namespaces[g].created <= namespaces[k].created
              /\ \A n \in DOMAIN namespaces :
                     lastTick'.nsDeleted[1] <= namespaces[n].created]_vars

\* A scale-down deleted a namespace and retained a strictly newer one.
C7_Witness ==
    /\ lastTick.branch = "active"
    /\ lastTick.nsDeleted # << >>
    /\ \E n \in DOMAIN namespaces :
           namespaces[n].created > lastTick.nsDeleted[1]

\* C8: no two live managed namespaces carry the same namespace-index.
C8_IndexNeverReused ==
    \A m, n \in DOMAIN namespaces :
        m # n => namespaces[m].labels.namespaceIndex
                   # namespaces[n].labels.namespaceIndex

\* The number of managed namespaces in the store.
NamespaceCount == Cardinality(DOMAIN namespaces)

\* ceil(nodeCount x namespacesPerNode) of the spec in the store, exactly.
DocumentedTarget ==
    LET r == DocumentedRatio(Deref(config).loadProfile)
    IN  ExactCeil(Cardinality(nodes), r.p, r.k)

\* C6: with a fixed node set and spec, and when one tick's estimate of
\* 5 x target calls fits the effective rate, repeated convergence brings the
\* number of managed namespaces to the target of calculateTargetNamespaces
\* and keeps it there.
C6_ConvergesWithinBudget ==
    <>[](TargetNow * 5 > RateNow \/ NamespaceCount = TargetNow)

\* The statement without the condition on the rate budget.
C6_AlwaysConverges == <>[](NamespaceCount = DocumentedTarget)

\* A tick repeated on a store that had converged from a different count.
C6_Witness ==
    /\ lastTick.branch = "active"
    /\ lastTick.repeat
    /\ TargetNow * 5 <= RateNow
    /\ TargetNow > 0
    /\ NamespaceCount = TargetNow

\* C9: a convergence that follows a clean one, with no change to nodes or
\* spec in between, creates and deletes no namespace and no ConfigMap,
\* Secret, Route, ImageStream, BuildConfig or Service, and leaves the set of
\* managed namespaces and their objects as they were.
C9_SecondRunKeepsCounts ==
    [][lastTick'.branch = "active" /\ lastTick'.repeat
       => /\ lastTick'.nsCreated = 0
          /\ lastTick'.nsDeleted = << >>
          /\ lastTick'.created = 0
          /\ lastTick'.deleted = 0
          /\ ~lastTick'.failed
          /\ namespaces' = namespaces]_vars

\* The statement as written: the second run writes nothing at all.
C9_SecondRunWritesNothing ==
    [][lastTick'.branch = "active" /\ lastTick'.repeat
       => /\ lastTick'.nsCreated = 0
          /\ lastTick'.nsDeleted = << >>
          /\ lastTick'.created = 0
          /\ lastTick'.deleted = 0
          /\ lastTick'.updated = 0
          /\ lastTick'.eventsCreated = 0]_vars

\* A second run over namespaces that hold objects updated some of them and
\* created or deleted none.
C9_Witness ==
    /\ lastTick.branch = "active"
    /\ lastTick.repeat
    /\ lastTick.updated > 0
    /\ lastTick.created = 0
    /\ lastTick.deleted = 0
    /\ \E n \in DOMAIN namespaces : namespaces[n].objs["configmap"] # {}

\* The namespace-index label of a managed namespace, as a number.
IndexOf(n) == Atoi(Deref(namespaces[n].labels.namespaceIndex)).val

\* The namespaces a resource type with interval k selects among indices
\* 0..29.
SelectedOfThirty(k) ==
    {i \in 0..29 :
        shouldCreateResourceForNamespace(newNamespace(0, i, 0, 0), k)}

\* C10: a resource type with namespaceInterval k > 1 is brought to its count
\* in the namespaces whose index is a multiple of k and holds no object in
\* the others; an interval <= 1 selects every namespace; interval 10 over
\* indices 0..29 selects exactly 0, 10 and 20.
C10_IntervalGating ==
    /\ SelectedOfThirty(10) = {0, 10, 20}
    /\ \A k \in {0 - 1, 0, 1} : SelectedOfThirty(k) = 0..29
    /\ [][lastTick'.branch = "active" /\ ~lastTick'.err
          => \A n \in DOMAIN namespaces', kind \in CountKinds :
               LET rt == Deref(config').resourceChurn[kind]
                   have == Cardinality(namespaces'[n].objs[kind])
               IN  rt.enabled /\ <<n, kind>> \notin lastTick'.kindErrors
                   => IF rt.namespaceInterval > 1
                         /\ IndexOf(n)' % rt.namespaceInterval # 0
                      THEN have = 0
                      ELSE have = rt.count]_vars

\* Of two namespaces one has an index the interval of 2 selects and holds
\* the ConfigMaps, the other has not and holds only its Route.
C10_Witness ==
    /\ lastTick.branch = "active"
    /\ \E m, n \in DOMAIN namespaces :
          /\ IndexOf(m) % 2 = 0
          /\ IndexOf(n) % 2 = 1
          /\ Cardinality(namespaces[m].objs["configmap"]) = 2
          /\ namespaces[n].objs["configmap"] = {}
          /\ Cardinality(namespaces[n].objs["route"]) = 1

\* C11: the objects of each count-based kind in a namespace are exactly
\* those at positions 0 .. n-1 (load-<kind>-0 .. load-<kind>-(n-1)), after
\* any sequence of passes with varying targets and no other writer.
C11_PositionalIdentity ==
    \A n \in DOMAIN namespaces, kind \in CountKinds :
        namespaces[n].objs[kind]
          = 0..(Cardinality(namespaces[n].objs[kind]) - 1)

\* C15: a not-found tick that ends without an error has deleted every
\* namespace labeled managed-by the name of the spec.
C15_NotFoundRemovesAll ==
    [][lastTick'.branch = "deleted" /\ ~lastTick'.err
       => DOMAIN namespaces' = {}]_vars

\* The RuntimeState fields and the objects a tick may write, the spec
\* object apart.
Written ==
    <<namespaces, apiCallCounter, lastRateLimitReset, lastReconcileTime,
      resourceManagers, status>>

\* C16: a tick that finds the finalizer absent adds it, persists it, asks
\* for a re-run and writes nothing else; and a spec object that carries the
\* finalizer leaves the store only in a Deleting tick.
C16_FinalizerFirst ==
    /\ [][/\ config # Nil
          /\ ~Deref(config).finalizer
          /\ lastTick'.branch \notin {"none", "getError"}
          => /\ lastTick'.branch = "finalizer"
             /\ UNCHANGED Written
             /\ IF lastTick'.err
                THEN config' = config
                ELSE /\ lastTick'.requeue
                     /\ config' = Ptr([Deref(config) EXCEPT
                                          !.finalizer = TRUE])]_vars
    /\ [][config # Nil /\ Deref(config).finalizer /\ config' = Nil
          => /\ Deref(config).deletionTimestamp # Nil
             /\ lastTick'.branch = "deletion"]_vars

\* The tick that added the finalizer: nothing else is written yet.
C16_Witness ==
    /\ lastTick.branch = "finalizer"
    /\ lastTick.requeue
    /\ config # Nil
    /\ Deref(config).finalizer
    /\ DOMAIN namespaces = {}
    /\ status = NoStatus

\* The cleanup delay of a spec being deleted has not elapsed at the tick.
DelayPending ==
    LET cfg == Deref(config)
    IN  /\ cfg.cleanupConfig.cleanupDelaySeconds > 0
        /\ Seconds(now - Deref(cfg.deletionTimestamp))
             < cfg.cleanupConfig.cleanupDelaySeconds

\* C17: in a Deleting tick with cleanup-on-delete enabled, while the
\* configured cleanup delay has not elapsed since the deletion timestamp the
\* tick asks for a wake-up in 10 seconds and keeps the finalizer; the
\* finalizer goes only in a tick at which the delay has elapsed, or when
\* cleanup-on-delete is off.
C17_DelayKeepsFinalizer ==
    [][lastTick'.branch = "deletion"
       => /\ Deref(config).cleanupConfig.enabled /\ DelayPending
             => /\ config' = config
                /\ lastTick'.err \/ lastTick'.requeueAfter = 10
          /\ config' = Nil
             => ~Deref(config).cleanupConfig.enabled \/ ~DelayPending]_vars

\* The statement for every Deleting tick, cleanup-on-delete on or off.
C17_DelayAlwaysKeepsFinalizer ==
    [][lastTick'.branch = "deletion"
       => /\ DelayPending
             => /\ config' = config
                /\ lastTick'.err \/ lastTick'.requeueAfter = 10
          /\ config' = Nil => ~DelayPending]_vars

\* A Deleting tick inside the delay: namespaces gone, finalizer kept.
C17_Witness ==
    /\ lastTick.branch = "deletion"
    /\ lastTick.requeueAfter = 10
    /\ config # Nil
    /\ Deref(config).finalizer
    /\ Deref(config).cleanupConfig.enabled
    /\ DOMAIN namespaces = {}

\* C18: with cleanup-on-delete enabled, the tick that removes the finalizer
\* leaves no managed namespace, also when namespace deletes fail.
C18_CleanupBeforeCompletion ==
    [][/\ lastTick'.branch = "deletion"
       /\ Deref(config).cleanupConfig.enabled
       /\ config' = Nil
       => DOMAIN namespaces' = {}]_vars

\* C19: a tick of a disabled spec writes no namespace, no object and no
\* RuntimeState, consumes no rate budget, and publishes a status with node
\* count 0 and namespace count 0.
C19_DisabledSkips ==
    [][lastTick'.branch = "disabled"
       => /\ UNCHANGED <<namespaces, apiCallCounter, lastRateLimitReset,
                         lastReconcileTime, resourceManagers, config>>
          /\ IF lastTick'.err THEN status' = status
             ELSE /\ status'.kwokNodeCount = 0
                  /\ status'.generatedNamespaces = 0
                  /\ \A r \in ResourceTypes : status'.totalResources[r] = 0]_vars

\* A disabled tick published zeros while a node and a namespace exist.
C19_Witness ==
    /\ lastTick.branch = "disabled"
    /\ ~lastTick.err
    /\ nodes # {}
    /\ DOMAIN namespaces # {}
    /\ status.kwokNodeCount = 0
    /\ status.generatedNamespaces = 0
    /\ status.conditions # Nil

\* What a denied tick leaves alone and returns.
DeniedWritesNothing ==
    /\ UNCHANGED <<namespaces, status, resourceManagers, lastReconcileTime,
                   config>>
    /\ ~lastTick'.err
    /\ lastTick'.requeueAfter = 60

\* C20: a tick whose request the budget denies writes no namespace, object
\* or status and asks to run again in 1 minute; the counter keeps its value,
\* unless the check opened a new window, which set it to 0.
C20_DeniedConvergesNothing ==
    [][lastTick'.branch = "denied"
       => /\ DeniedWritesNothing
          /\ apiCallCounter' = IF lastTick'.windowReset THEN 0
                               ELSE apiCallCounter]_vars

\* The statement with the counter unchanged in every denied tick.
C20_DeniedKeepsCounter ==
    [][lastTick'.branch = "denied"
       => DeniedWritesNothing /\ apiCallCounter' = apiCallCounter]_vars

\* A tick denied inside a window that has admitted calls before.
C20_Witness ==
    /\ lastTick.branch = "denied"
    /\ ~lastTick.windowReset
    /\ lastTick.requeueAfter = 60
    /\ apiCallCounter > 0
    /\ apiCallCounter + TargetNow * 5 > RateNow

\* C12: a node whose write meets a conflict on attempts 1 to 4 is written
\* once, by attempt 5; a node whose 5 attempts all meet a conflict is not
\* tried a sixth time and keeps its annotations, while the tick goes on: the
\* other nodes it updates are written and the call returns no error for it.
C12_AnnotationRetry ==
    [][LET met == lastTick'.nodeFault
           n == met.node
           result == lastTick'.nodeUpdates[n]
       IN  /\ \A m \in DOMAIN lastTick'.nodeUpdates :
                 lastTick'.nodeUpdates[m].attempts <= 5
           /\ met.kind = "conflict" /\ met.at = 4
              => /\ result.attempts = 5
                 /\ result.persisted = 1
                 /\ result.err = "none"
                 /\ annotations'[n].lastSeen = Ptr(now)
           /\ met.kind = "conflict" /\ met.at >= 5
              => /\ result.attempts = 5
                 /\ result.persisted = 0
                 /\ result.err = "timeout"
                 /\ annotations'[n] = annotations[n]
                 /\ lastTick'.branch = "active"
                 /\ \A m \in DOMAIN lastTick'.nodeUpdates \ {n} :
                       /\ lastTick'.nodeUpdates[m].persisted = 1
                       /\ annotations'[m].lastSeen = Ptr(now)]_vars

\* A node written by its fifth attempt, after four conflicts.
C12_Witness ==
    /\ lastTick.nodeFault.kind = "conflict"
    /\ lastTick.nodeFault.at = 4
    /\ lastTick.nodeUpdates[lastTick.nodeFault.node].attempts = 5
    /\ lastTick.nodeUpdates[lastTick.nodeFault.node].persisted = 1

\* Five conflicts on one node in a tick that wrote the other node.
C12_GaveUp ==
    /\ lastTick.nodeFault.kind = "conflict"
    /\ lastTick.nodeFault.at >= 5
    /\ \E m \in DOMAIN lastTick.nodeUpdates : lastTick.nodeUpdates[m].persisted = 1

\* C13: no two workers run Reconcile for the same ScaleLoadConfig, and no
\* more than one Reconcile runs at any time, whatever watch events and
\* timers add to the queue.
C13_OneTickAtATime ==
    /\ \A v, w \in DOMAIN manager.processing :
          manager.processing[v] = manager.processing[w] => v = w
    /\ Cardinality(DOMAIN manager.processing) <= 1

\* A request for a ScaleLoadConfig arrived while its Reconcile was running,
\* and the request of the other one is waiting too.
C13_Witness ==
    \E w \in DOMAIN manager.processing :
        /\ manager.processing[w] \in manager.dirty
        /\ manager.queue # << >>

\* C14: the counter, the window start, the last-reconcile time and the
\* namespace runtimes a ScaleLoadConfig's Reconcile works on are the ones its
\* own last Reconcile left.
C14_RuntimeNotShared == Runtime = manager.own[manager.view]

\* The objects of the enabled kinds are in place in namespace n, unless the
\* pass of that kind, or the status check of the namespace, failed.
Provisioned(n) ==
    \A kind \in CountKinds :
        LET kc == Deref(config).resourceChurn[kind]
        IN  /\ kc.enabled
            /\ <<n, kind>> \notin lastTick'.kindErrors
            /\ <<n, "namespace">> \notin lastTick'.kindErrors
            => Cardinality(namespaces'[n].objs[kind]) = kc.count

\* C21: in an active tick the namespaces are converged first, then the
\* objects, then the node annotations, then the status: a failed namespace
\* step leaves objects, annotations and status alone; the objects are
\* created in the namespaces this tick created; a failed status write
\* leaves the namespaces, objects and annotations the tick wrote; and the
\* published status counts the namespaces the tick left.
C21_PhaseOrder ==
    [][lastTick'.branch = "active"
       => /\ lastTick'.nsFailed \/ lastTick'.listFailed
             => /\ lastTick'.created = 0 /\ lastTick'.deleted = 0
                /\ lastTick'.eventAttempts = 0
                /\ lastTick'.nodeUpdates = << >>
                /\ annotations' = annotations
                /\ status' = status
          /\ ~(lastTick'.nsFailed \/ lastTick'.listFailed)
             => /\ \A n \in DOMAIN namespaces' \ DOMAIN namespaces :
                      Provisioned(n)
                /\ \A m \in DOMAIN lastTick'.nodeUpdates :
                      lastTick'.nodeUpdates[m].persisted = 1
                      => annotations'[m].lastSeen = Ptr(now)
                /\ lastTick'.err => status' = status
          /\ ~lastTick'.err
             => /\ status'.generatedNamespaces = Cardinality(DOMAIN namespaces')
                /\ status'.kwokNodeCount = Cardinality(nodes)]_vars

\* A tick created two namespaces, filled them, wrote the annotations of both
\* nodes and published the new count.
C21_Witness ==
    /\ lastTick.branch = "active"
    /\ ~lastTick.err
    /\ lastTick.nsCreated = 2
    /\ lastTick.created > 0
    /\ Cardinality(DOMAIN lastTick.nodeUpdates) = 2
    /\ status.generatedNamespaces = 2

\* The documented wake-up period of a profile, in seconds.
DocumentedInterval(profile) ==
    IF profile = "development" THEN 2 * 60
    ELSE IF profile = "staging" THEN 90
    ELSE IF profile = "extreme" THEN 30
    ELSE 60

\* C22: an active tick that returns without error and was not denied by the
\* rate budget asks for its next run after the interval of the profile:
\* 120 s for development, 90 s for staging, 30 s for extreme, 60 s for any
\* other name, whatever the ratio and the node count.
C22_ProfileInterval ==
    [][lastTick'.branch = "active" /\ ~lastTick'.err
       => lastTick'.requeueAfter
            = DocumentedInterval(Deref(config).loadProfile.profile)]_vars

\* A staging spec with one namespace per node and two nodes asked for its
\* next run after 90 seconds.
C22_Witness ==
    /\ lastTick.branch = "active"
    /\ ~lastTick.err
    /\ config # Nil
    /\ Deref(config).loadProfile.profile = "staging"
    /\ Deref(config).loadProfile.namespacesPerNode = Ptr(<<"1", ".", "0">>)
    /\ Cardinality(nodes) = 2
    /\ lastTick.requeueAfter = 90

\* C23: every object a tick creates carries the managed-by label with the
\* name of its ScaleLoadConfig and a resource-type label.
C23_ObjectLabels ==
    \A labels \in lastTick.labels :
        /\ labels.managedBy = manager.view
        /\ labels.resourceType # Nil

\* The rate fields of a load profile that are set.
RatesSet(loadProfile) ==
    {f \in {"apiCallRateStatic", "apiCallRatePerNode", "apiCallRate"} :
        loadProfile[f] # Nil}

\* C24: validation on create and on update accepts the new object exactly
\* when at most one rate field is set and the field that is set is greater
\* than 0; what the old object holds plays no part.
C24_RateValidation ==
    calc.fn \in {"ValidateCreate", "ValidateUpdate"}
    => (calc.result = "ok"
        <=> /\ Cardinality(RatesSet(calc.new)) <= 1
            /\ \A f \in RatesSet(calc.new) : Deref(calc.new[f]) > 0)

\* An update from a static rate to a per-node rate is accepted.
C24_Witness ==
    /\ calc.fn = "ValidateUpdate"
    /\ RatesSet(calc.old) = {"apiCallRateStatic"}
    /\ RatesSet(calc.new) = {"apiCallRatePerNode"}
    /\ calc.result = "ok"

\* C25: a status published by a tick has Degraded = True (HighErrorRate)
\* exactly when more than 10 percent of the spec's ticks so far counted an
\* error.
C25_DegradedShowsErrors ==
    /\ "ticks" \in DOMAIN env
    /\ lastTick.branch \in {"active", "disabled"}
    /\ ~lastTick.err
    => (Deref(status.conditions).degraded = "HighErrorRate"
        <=> env.errors * 100 > 10 * env.ticks)

\* C26: a namespace create or delete that fails ends the batch at that
\* call; the tick returns the error and writes no object, no event, no node
\* annotation and no status.  No tick passes the target, and the tick after
\* a failed batch creates or deletes what is left to reach the target.
C26_BatchAborts ==
    [][lastTick'.branch = "active"
       => LET before == Cardinality(DOMAIN namespaces)
              after == Cardinality(DOMAIN namespaces')
              target == TargetNow
              made == lastTick'.nsCreated
              gone == Len(lastTick'.nsDeleted)
          IN  /\ lastTick'.nsFailed
                 => /\ lastTick'.err
                    /\ IF before < target
                       THEN made = lastTick'.nsFailedAt - 1 /\ gone = 0
                       ELSE gone = lastTick'.nsFailedAt - 1 /\ made = 0
                    /\ lastTick'.created = 0 /\ lastTick'.deleted = 0
                    /\ lastTick'.updated = 0 /\ lastTick'.eventAttempts = 0
                    /\ lastTick'.nodeUpdates = << >>
                    /\ annotations' = annotations
                    /\ status' = status
              /\ after = before + made - gone
              /\ before <= target => before <= after /\ after <= target
              /\ before >= target => target <= after /\ after <= before
              /\ lastTick.nsFailed /\ ~lastTick'.nsFailed /\ ~lastTick'.listFailed
                 => /\ after = target
                    /\ made + gone = IF before < target THEN target - before
                                     ELSE before - target]_vars

\* The tick after a batch of two creates that failed at the second create
\* made the one namespace that was left to make.
C26_Witness ==
    /\ lastTick.branch = "active"
    /\ lastTick.retry
    /\ ~lastTick.err
    /\ lastTick.nsCreated = 1
    /\ Cardinality(DOMAIN namespaces) = 2
    /\ TargetNow = 2

\* A failure the tick logs and skips: a kind or the pass of a namespace, a
\* churn update, an event create, the annotation update of a node.
ConfinedFailure(tick) ==
    \/ tick.kindErrors # {}
    \/ tick.stale > 0
    \/ tick.eventsCreated < tick.eventAttempts
    \/ \E n \in DOMAIN tick.nodeUpdates : tick.nodeUpdates[n].err # "none"

\* C27: an active tick with such a failure still converges the other kinds
\* of the namespace and the other namespaces, attempts every event create,
\* writes the other nodes, publishes its status and asks for its next run
\* after the interval of the profile.
C27_FailureIsolated ==
    [][lastTick'.branch = "active" /\ ConfinedFailure(lastTick')
       => LET cfg == Deref(config)
              passed == {n \in DOMAIN namespaces' :
                            <<n, "namespace">> \notin lastTick'.kindErrors}
              perNamespace ==
                  eventsToCreateOf[cfg.events][
                      timeSinceLastReconcile(lastReconcileTime, now)]
          IN  /\ ~lastTick'.err
              /\ status'.conditions # Nil
              /\ status'.generatedNamespaces = Cardinality(DOMAIN namespaces')
              /\ status'.kwokNodeCount = Cardinality(nodes)
              /\ lastTick'.requeueAfter
                   = calculateReconcileInterval(cfg.loadProfile)
              /\ \A n \in passed : Provisioned(n)
              /\ lastTick'.eventAttempts = perNamespace * Cardinality(passed)
              /\ DOMAIN lastTick'.nodeUpdates \subseteq nodes
              /\ \A m \in DOMAIN lastTick'.nodeUpdates :
                    IF lastTick'.nodeUpdates[m].err = "none"
                    THEN annotations'[m].lastSeen = Ptr(now)
                    ELSE m = lastTick'.nodeFault.node]_vars

\* The ConfigMap pass of namespace 1 failed; the tick made the Route of that
\* namespace and the objects of namespace 2 and published its status.
C27_Witness ==
    /\ lastTick.branch = "active"
    /\ lastTick.kindErrors = {<<1, "configmap">>}
    /\ ~lastTick.err
    /\ DOMAIN namespaces = {1, 2}
    /\ namespaces[1].objs["configmap"] = {}
    /\ namespaces[1].objs["route"] # {}
    /\ namespaces[2].objs["configmap"] # {}
    /\ status.generatedNamespaces = 2

\* The Route pass of namespace n ran in the tick and ended without error.
RoutePassed(n) ==
    /\ lastTick'.branch = "active"
    /\ ~lastTick'.nsFailed
    /\ ~lastTick'.listFailed
    /\ n \in DOMAIN namespaces'
    /\ <<n, "namespace">> \notin lastTick'.kindErrors
    /\ <<n, "route">> \notin lastTick'.kindErrors

\* C28: after a Route pass that ends without error, the Services load-service-i
\* of the namespace are exactly those of its Routes load-route-i.
C28_RoutesPaired ==
    [][\A n \in 1..MaxNodes :
          RoutePassed(n)
          => namespaces'[n].services = namespaces'[n].objs["route"]]_vars

\* C29: a tick in which the store refused nothing issued no churn update
\* that failed: every update went to an object that exists after the
\* scale step.
C29_ChurnOnlyRemaining ==
    [][lastTick'.branch = "active" /\ env' = env
       => lastTick'.stale = 0]_vars

\* The documented number of event creates: the whole events of the rate over
\* the elapsed seconds, at most 10.
DocumentedEvents(rate, seconds) ==
    LET perHour == IF rate <= 0 THEN 50 ELSE rate
        whole   == (perHour * seconds) \div 3600
    IN  IF whole > 10 THEN 10 ELSE whole

\* C30: an active tick attempts, in its one ready namespace, the documented
\* number of event creates for the time since the last reconcile (one minute
\* on the first run) and no more than 10; the creates the store refuses are
\* attempted once and are missing from the number created.
C30_EventAttempts ==
    [][/\ lastTick'.branch = "active"
       /\ ~lastTick'.nsFailed
       /\ ~lastTick'.listFailed
       /\ lastTick'.kindErrors = {}
       /\ DOMAIN namespaces' = {1}
       => LET rate == Deref(config).events.eventsPerNodePerHour
              seconds == IF lastReconcileTime = Nil THEN 60
                         ELSE Seconds(now - Deref(lastReconcileTime))
          IN  /\ lastTick'.eventAttempts = DocumentedEvents(rate, seconds)
              /\ lastTick'.eventAttempts <= 10
              /\ lastTick'.eventsCreated <= lastTick'.eventAttempts
              /\ lastTick'.eventsCreated < lastTick'.eventAttempts
                   => env'.faults < env.faults]_vars

\* A tick at 1200 events an hour attempted 10 creates, of which the store
\* refused some.
C30_Witness ==
    /\ lastTick.branch = "active"
    /\ config # Nil
    /\ Deref(config).events.eventsPerNodePerHour = 1200
    /\ lastTick.eventAttempts = 10
    /\ lastTick.eventsCreated < 10

\* C38: with cleanup-on-delete off, neither the Deleting tick nor the
\* not-found tick after the removal of the spec deletes a managed namespace.
C38_DisabledCleanupKeepsNamespaces ==
    [][lastTick'.branch \in {"deletion", "deleted"}
       => namespaces' = namespaces]_vars

\* C40: a tick for a spec object that carries a deletion timestamp and no
\* cleanup finalizer does not take the branch that adds the finalizer and
\* writes the object.
C40_NoFinalizerOnDeleting ==
    [][/\ config # Nil
       /\ Deref(config).deletionTimestamp # Nil
       /\ ~Deref(config).finalizer
       => lastTick'.branch # "finalizer"]_vars

\* The tick reached the node annotation pass.
AnnotationPass ==
    \/ lastTick'.branch = "panic"
    \/ lastTick'.branch = "active" /\ ~lastTick'.err

\* C31: with minInterval <= maxInterval the annotation pass completes; it
\* updates every node without the sentinel and every node last updated more
\* than maxInterval ago, and no node last updated less than minInterval ago.
C31_ThresholdGate ==
    [][AnnotationPass
       => LET churn == Deref(config).annotationChurn
          IN  churn.updateIntervalMin <= churn.updateIntervalMax
              => /\ lastTick'.branch # "panic"
                 /\ \A n \in nodes :
                       LET last == annotations[n].lastUpdate
                           since == Seconds(now - Deref(last))
                           updated == n \in DOMAIN lastTick'.nodeUpdates
                       IN  /\ last = Nil => updated
                           /\ last # Nil /\ since < churn.updateIntervalMin
                              => ~updated
                           /\ last # Nil /\ since > churn.updateIntervalMax
                              => updated]_vars

\* C32: in the update of a node, a group that changed a key stamps its
\* iteration counter and the sentinel, and a group that changed none stamps
\* no counter: the networking group, the machine-config group and the
\* cluster group, which changes load-generator-managed and last-seen.
C32_GroupStamps ==
    [][\A m \in DOMAIN lastTick'.nodeUpdates :
          LET keys == lastTick'.nodeUpdates[m].keys
              stamps(changed, counter) ==
                  IF changed THEN {counter, "lastUpdate"} \subseteq keys
                  ELSE counter \notin keys
          IN  /\ stamps("networking" \in keys, "networkingIteration")
              /\ stamps("machineConfig" \in keys, "machineConfigIteration")
              /\ stamps({"managed", "lastSeen"} \cap keys # {},
                        "clusterIteration")]_vars

\* C34: in the update of a node, an error other than a conflict, of the Get
\* or of the Update of attempt k, ends the loop at attempt k: nothing of the
\* node is persisted and its update is reported as failed.
C34_OtherErrorAborts ==
    [][LET met == lastTick'.nodeFault
           n == met.node
           result == lastTick'.nodeUpdates[n]
       IN  met.kind \in {"error", "getError"} /\ met.at <= BackoffSteps
           => /\ result.attempts = met.at
              /\ result.persisted = 0
              /\ result.err = met.kind
              /\ annotations'[n] = annotations[n]
              /\ lastTick'.failed]_vars

\* The Get of the second attempt failed after one conflict: two attempts,
\* nothing written for the node, and the other node written.
C34_Witness ==
    /\ lastTick.nodeFault.kind = "getError"
    /\ lastTick.nodeFault.at = 2
    /\ lastTick.nodeUpdates[lastTick.nodeFault.node].attempts = 2
    /\ lastTick.nodeUpdates[lastTick.nodeFault.node].persisted = 0
    /\ \E m \in DOMAIN lastTick.nodeUpdates : lastTick.nodeUpdates[m].persisted = 1

\* C39: a write of a node that succeeds leaves the time of the write in the
\* sentinel of the node, and no node is written again before minInterval
\* has passed since its last write.
C39_WriteSetsSentinel ==
    [][\A m \in DOMAIN lastTick'.nodeUpdates :
          lastTick'.nodeUpdates[m].persisted = 1
          => /\ annotations'[m].lastUpdate = Ptr(now)
             /\ annotations[m].lastSeen # Nil
                => Seconds(now - Deref(annotations[m].lastSeen))
                     >= Deref(config).annotationChurn.updateIntervalMin]_vars

\* C33: the write of a node leaves the annotation of the other writer as
\* that writer last set it, between the list of the nodes and the write.
C33_OtherWriterKept ==
    [][\A m \in DOMAIN lastTick'.nodeUpdates :
          lastTick'.nodeUpdates[m].persisted = 1
          => annotations'[m].other = lastTick'.nodeUpdates[m].latest]_vars

C36_UnselectedHoldNone ==
    lastTick.branch = "active" /\ ~lastTick.err /\ ~lastTick.failed =>
        \A n \in DOMAIN namespaces, kind \in CountKinds :
            LET interval == Deref(config).resourceChurn[kind].namespaceInterval
                index == Atoi(Deref(namespaces[n].labels.namespaceIndex)).val
            IN  interval > 1 /\ index % interval # 0
                => namespaces[n].objs[kind] = {}

\* C37: every namespace in the store carries the identity labels the engine
\* assigns, so the listing returns every namespace the engine created, and
\* the namespaces created for the spec never outnumber the target.
C37_IdentityLabelsKept ==
    /\ \A n \in DOMAIN namespaces :
          /\ namespaces[n].labels.managedBy = manager.view
          /\ namespaces[n].labels.createdBy = "sim-operator"
          /\ namespaces[n].labels.associatedNode \in nodes \cup {0}
          /\ namespaces[n].labels.namespaceIndex # Nil
    /\ DOMAIN getManagedNamespaces(namespaces) = DOMAIN namespaces
    /\ config # Nil =>
          Cardinality(DOMAIN namespaces)
              <= targetNamespacesOf[Deref(config).loadProfile][Cardinality(nodes)]

====
